---- MODULE Spec2Model ----
(***************************************************************************)
(* amqpy: an AMQP 0.9.1 client.  One Connection (channel 0) owns a         *)
(* Transport and a pool of channel ids; Channel objects run synchronous    *)
(* RPCs over the shared socket; application threads call the operations.   *)
(*                                                                         *)
(* Spec      the connection, its channels, the application threads and the *)
(*           broker, at the granularity of whole methods.                  *)
(* SpecWire  MethodWriter.write_method and Transport.write_frame at the    *)
(*           granularity of frames and bytes.                              *)
(* SpecWaits, SpecEvents, SpecRpcs  waits, consumers and drain_events.     *)
(* SpecRead  read_method over read_frame, at the granularity of reads.     *)
(* SpecAssemble  MethodReader._next_method, at the granularity of frames.  *)
(* SpecHandshake, SpecPublish, SpecMode, SpecError, SpecAlive,             *)
(* SpecBlocked, SpecCodec, SpecConfirm, SpecGet, SpecOrder, SpecLock       *)
(*           one part of the client each, see their sections.              *)
(***************************************************************************)
EXTENDS Integers, Sequences, FiniteSets, TLC

\* ---------------------------------------------------------------- bounds
NThreads == 2     \* application threads
NObjects == 2     \* Channel objects that can be constructed
MaxOps == 4       \* operations the application issues in one run
MaxErrors == 1    \* channel errors the broker raises in one run
MaxChannels == 2  \* the channel_max the connection was tuned to
MaxWrites == 3    \* methods and heartbeats written in one run of SpecWire
MaxBody == 3      \* longest message body, in bytes
FrameMax == 10    \* the frame_max the connection was tuned to
FrameParts == 2   \* send() calls sock.sendall needs for one frame

Threads == 1..NThreads
Objs == 1..NObjects
Ids == 1..MaxChannels
Nil == 0 - 1      \* Python's None where an id or an object is expected
ConnObj == 0      \* the Connection, which is channel 0

VARIABLES
    conn,       \* Connection: open (transport, connection, channels not None), channels, avail
    transport,  \* Transport: sock (not None), connected
    chan,       \* Channel objects
    lock,       \* AbstractChannel.lock of each Channel object: holder thread or 0
    inbox,      \* AbstractChannel.method_queue of the Connection (0) and of each Channel
    selectOk,   \* Channel objects on which confirm_select() has returned since they were opened
    pc, op, obj, arg, result,   \* each thread: position, operation, object, arguments, outcome
    c2s, s2c,   \* methods in flight: client to broker, broker to client
    srv,        \* broker: alive, confirm mode of each channel, close sent
    nOps, nErrs,
    wire,       \* SpecWire: what sock.send has put on the socket, in order
    wlock,      \* Transport._frame_write_lock: holder thread or 0
    wframes,    \* each thread: the frames its write_method has still to write
    wpos,       \* each thread: send() calls done for the frame it is writing (0: not in write)
    wseq,       \* methods and heartbeats handed to the writer so far
    method_queue,       \* SpecEvents: AbstractChannel.method_queue of channel 0 and each open Channel
    callbacks,          \* Channel.callbacks: tag -> "fn", "none" (None was passed) or "absent"
    cancel_callbacks,   \* Channel.cancel_callbacks: tags with an on_cancel callable
    no_ack_consumers,   \* Channel.no_ack_consumers
    returned_messages,  \* Channel.returned_messages
    chlock,             \* AbstractChannel.lock of each open Channel: holder thread or 0
    caller,             \* each thread: position, operation, channel, arguments, outcome
    toPeer, fromPeer,   \* methods in flight: client to broker, broker to client
    peer,               \* broker: consumers, methods sent, consumer cancels pushed
    calls,              \* invocations of user callbacks, in order
    rcvd,               \* methods read_method has returned, in order
    dispatched,         \* methods drain_events has handed to a handler, in order
    taken,              \* methods a wait() has returned or handled at once
    nEvOps,
    net, sockbuf,       \* SpecRead: parts of inbound frames in flight, and arrived at the socket
    rframe,             \* Transport.read_frame: the parts of the frame read so far
    expected_types,     \* MethodReader.expected_types
    partial_methods,    \* MethodReader.partial_methods: the method being assembled, or 0
    methods_read,       \* the methods read_method has returned, in order
    connected,          \* Transport.connected
    sock_timeout,       \* the socket's timeout
    reader,             \* the thread in read_method: position, timeout, outcome
    unexpected,         \* an UnexpectedFrame has been raised
    inPeer,             \* the broker's sending side
    hs,                 \* SpecHandshake: Connection.__init__: position, limits, heartbeats
    hsIn, hsOut,        \* handshake methods in flight: broker to client, client to broker
    hsPeer,             \* the broker's side of the handshake
    hsTrace,             \* what the client received (<-) and sent (->), in order
    pub,                \* SpecPublish: basic_publish: position, lock, outcome; the writer's frame_max
    frames,             \* MethodWriter.write_method: its local queue of frames
    sent,               \* the frames written to the transport, in order
    published,           \* the messages basic_publish was called with, and how each call ended
    mch,                \* SpecMode: one Channel: position, operation, is_open, mode, outcome
    mOut, mIn,          \* its methods in flight: to the broker, from the broker
    mSrv,                \* the broker's record of that channel: open, its mode
    ec,                  \* SpecError: a call of error_for_code: its arguments and what it returned
    al,                 \* SpecAlive: Connection.transport, Transport.sock and .connected, the
                        \* peer's end of the socket, the last event and the last is_alive()
    probes,              \* the frames is_alive() has written
    bk,                 \* SpecBlocked: the connection, one Channel and the thread using it
    bkIn,               \* methods from the broker not yet read
    bkQ,                \* method_queue of channel 0 and of the Channel
    bkCalls,            \* the calls of on_blocked and on_unblocked, in order
    bkPeer,              \* the broker: requests it owes a reply to, notices it has sent
    cx,                  \* SpecCodec: fields being written by an AMQPWriter and read back
    cf,                 \* SpecConfirm: one Channel: its lock, _confirm_selected, confirm_publish
    cfThr,              \* each thread: its stack of calls on the Channel, innermost last
    cfOut, cfIn,        \* methods in flight: to the broker, from the broker
    cfQ,                \* the Channel's method_queue
    cfSrv,               \* the broker: the channel is in confirm mode
    bg,                 \* SpecGet: the thread using one Channel: position, outcome, calls made
    bgOut, bgIn,        \* methods in flight: to the broker, from the broker
    bgQ,                \* the Channel's method_queue
    bgPeer,              \* the broker: messages on the queue, its answer to the pending get
    od,                 \* SpecOrder: the thread using one Channel: position, request, reply
    odOut, odIn,        \* methods in flight: to the broker, from the broker
    odQ,                 \* the Channel's method_queue
    asm,                \* SpecAssemble: the MethodReader and the thread reading from it
    lk                  \* SpecLock: one Channel, its lock and the threads calling it

vars == <<conn, transport, chan, lock, inbox, selectOk, pc, op, obj, arg, result,
          c2s, s2c, srv, nOps, nErrs, wire, wlock, wframes, wpos, wseq,
          method_queue, callbacks, cancel_callbacks, no_ack_consumers, returned_messages,
          chlock, caller, toPeer, fromPeer, peer, calls, rcvd, dispatched, taken, nEvOps,
          net, sockbuf, rframe, expected_types, partial_methods, methods_read, connected,
          sock_timeout, reader, unexpected, inPeer, hs, hsIn, hsOut, hsPeer, hsTrace,
          pub, frames, sent, published,
          mch, mOut, mIn, mSrv,
          ec,
          al, probes,
          bk, bkIn, bkQ, bkCalls, bkPeer,
          cx,
          cf, cfThr, cfOut, cfIn, cfQ, cfSrv,
          bg, bgOut, bgIn, bgQ, bgPeer,
          od, odOut, odIn, odQ,
          asm,
          lk>>
wireVars == <<wire, wlock, wframes, wpos, wseq>>
chanVars == <<conn, transport, chan, lock, inbox, selectOk, pc, op, obj, arg, result,
              c2s, s2c, srv, nOps, nErrs>>
eventVars == <<method_queue, callbacks, cancel_callbacks, no_ack_consumers, returned_messages,
               chlock, caller, toPeer, fromPeer, peer, calls, rcvd, dispatched, taken, nEvOps>>
\* what the actions of each specification leave alone
readVars == <<net, sockbuf, rframe, expected_types, partial_methods, methods_read, connected,
              sock_timeout, reader, unexpected, inPeer>>
handshakeVars == <<hs, hsIn, hsOut, hsPeer, hsTrace>>
publishVars == <<pub, frames, sent, published>>
modeVars == <<mch, mOut, mIn, mSrv>>
errorVars == <<ec>>
aliveVars == <<al, probes>>
blockedVars == <<bk, bkIn, bkQ, bkCalls, bkPeer>>
codecVars == <<cx>>
confirmVars == <<cf, cfThr, cfOut, cfIn, cfQ, cfSrv>>
getVars == <<bg, bgOut, bgIn, bgQ, bgPeer>>
orderVars == <<od, odOut, odIn, odQ>>
assembleVars == <<asm>>
lockVars == <<lk>>
offChan == <<wireVars, eventVars, readVars, handshakeVars, publishVars, modeVars, errorVars, aliveVars, blockedVars, codecVars, confirmVars, getVars, orderVars, assembleVars, lockVars>>
offWire == <<chanVars, eventVars, readVars, handshakeVars, publishVars, modeVars, errorVars, aliveVars, blockedVars, codecVars, confirmVars, getVars, orderVars, assembleVars, lockVars>>
offEvents == <<chanVars, wireVars, readVars, handshakeVars, publishVars, modeVars, errorVars, aliveVars, blockedVars, codecVars, confirmVars, getVars, orderVars, assembleVars, lockVars>>
offRead == <<chanVars, wireVars, eventVars, handshakeVars, publishVars, modeVars, errorVars, aliveVars, blockedVars, codecVars, confirmVars, getVars, orderVars, assembleVars, lockVars>>
offHandshake == <<chanVars, wireVars, eventVars, readVars, publishVars, modeVars, errorVars, aliveVars, blockedVars, codecVars, confirmVars, getVars, orderVars, assembleVars, lockVars>>
offPublish == <<wireVars, chanVars, eventVars, readVars, handshakeVars, modeVars, errorVars, aliveVars, blockedVars, codecVars, confirmVars, getVars, orderVars, assembleVars, lockVars>>
offMode == <<wireVars, chanVars, eventVars, readVars, handshakeVars, publishVars, errorVars, aliveVars, blockedVars, codecVars, confirmVars, getVars, orderVars, assembleVars, lockVars>>
offError == <<wireVars, chanVars, eventVars, readVars, handshakeVars, publishVars, modeVars, aliveVars, blockedVars, codecVars, confirmVars, getVars, orderVars, assembleVars, lockVars>>
offAlive == <<wireVars, chanVars, eventVars, readVars, handshakeVars, publishVars, modeVars, errorVars, blockedVars, codecVars, confirmVars, getVars, orderVars, assembleVars, lockVars>>
offBlocked == <<wireVars, chanVars, eventVars, readVars, handshakeVars, publishVars, modeVars, errorVars, aliveVars, codecVars, confirmVars, getVars, orderVars, assembleVars, lockVars>>
offCodec == <<wireVars, chanVars, eventVars, readVars, handshakeVars, publishVars, modeVars, errorVars, aliveVars, blockedVars, confirmVars, getVars, orderVars, assembleVars, lockVars>>
offConfirm == <<wireVars, chanVars, eventVars, readVars, handshakeVars, publishVars, modeVars, errorVars, aliveVars, blockedVars, codecVars, getVars, orderVars, assembleVars, lockVars>>
offGet == <<wireVars, chanVars, eventVars, readVars, handshakeVars, publishVars, modeVars, errorVars, aliveVars, blockedVars, codecVars, confirmVars, orderVars, assembleVars, lockVars>>
offOrder == <<wireVars, chanVars, eventVars, readVars, handshakeVars, publishVars, modeVars, errorVars, aliveVars, blockedVars, codecVars, confirmVars, getVars, assembleVars, lockVars>>
offAssemble == <<wireVars, chanVars, eventVars, readVars, handshakeVars, publishVars, modeVars, errorVars, aliveVars, blockedVars, codecVars, confirmVars, getVars, orderVars, lockVars>>
offLock == <<wireVars, chanVars, eventVars, readVars, handshakeVars, publishVars, modeVars, errorVars, aliveVars, blockedVars, codecVars, confirmVars, getVars, orderVars, assembleVars>>

Meth(c, ty) == [ch |-> c, ty |-> ty]

\* ------------------------------------------------------------ sequences
RECURSIVE SeqOfSet(_)
SeqOfSet(S) == IF S = {} THEN <<>>
               ELSE LET x == CHOOSE y \in S : \A z \in S : y <= z
                    IN <<x>> \o SeqOfSet(S \ {x})

RemoveAt(s, i) == SubSeq(s, 1, i - 1) \o SubSeq(s, i + 1, Len(s))

\* array('H', range(channel_max, 0, -1))
InitialIds == [i \in 1..MaxChannels |-> MaxChannels + 1 - i]

Count(s, x) == Cardinality({i \in 1..Len(s) : s[i] = x})

\* ------------------------------------------------------------ operations
LockedOps == {"queue_declare", "basic_publish", "confirm_select", "basic_consume", "close"}

\* the request each operation writes
Request(k) ==
    CASE k = "queue_declare" -> "queue.declare"
      [] k = "basic_publish" -> "basic.publish"
      [] k = "confirm_select" -> "confirm.select"
      [] k = "basic_consume" -> "basic.consume"
      [] k = "basic_cancel" -> "basic.cancel"
      [] k = "close" -> "channel.close"
      [] k = "open" -> "channel.open"
      [] k = "conn_close" -> "connection.close"

\* the allowed_methods each operation passes to wait()
OpAllowed(k) ==
    CASE k = "queue_declare" -> {"queue.declare-ok"}
      [] k = "confirm_select" -> {"confirm.select-ok"}
      [] k = "basic_consume" -> {"basic.consume-ok"}
      [] k = "basic_cancel" -> {"basic.cancel-ok"}
      [] k = "close" -> {"channel.close", "channel.close-ok"}
      [] k = "open" -> {"channel.open-ok"}
      [] k = "conn_close" -> {"connection.close", "connection.close-ok"}
      [] OTHER -> {}

NoArg == [on_cancel |-> FALSE, no_ack |-> FALSE]
ConsumeArgs == [on_cancel : BOOLEAN, no_ack : BOOLEAN]
Tag == "ctag"     \* the consumer tag the broker assigns

NewChan == [born |-> "no", channel_id |-> Nil, connection |-> FALSE, is_open |-> FALSE,
            callbacks |-> {}, cancel_callbacks |-> {}, no_ack_consumers |-> {}]

\* SpecEvents: the Channels 1..NEvChans are open; consumers use the tags Tags
NEvChans == 2
MaxEvOps == 3
MaxPushes == 1
EvChans == 1..NEvChans
Tags == {"a", "b"}
NoTag == "-"
Resting == [pc |-> "idle", op |-> "none", ch |-> 0, tag |-> NoTag, callback |-> "none",
            on_cancel |-> FALSE, no_ack |-> FALSE, result |-> "none"]

EvInit ==
    /\ method_queue = [c \in 0..NEvChans |-> <<>>]
    /\ callbacks = [c \in EvChans |-> [g \in Tags |-> "absent"]]
    /\ cancel_callbacks = [c \in EvChans |-> {}]
    /\ no_ack_consumers = [c \in EvChans |-> {}]
    /\ returned_messages = [c \in EvChans |-> <<>>]
    /\ chlock = [c \in EvChans |-> 0]
    /\ caller = [t \in Threads |-> Resting]
    /\ toPeer = <<>>
    /\ fromPeer = <<>>
    /\ peer = [consumers |-> {}, sent |-> 0, pushes |-> 0]
    /\ calls = <<>>
    /\ rcvd = <<>>
    /\ dispatched = <<>>
    /\ taken = {}
    /\ nEvOps = 0

\* SpecRead: inbound frames on the channels RdChans
MaxMethods == 2
MaxFaults == 1
MaxReads == 3
FrameReads == 3
RdChans == 1..2

RdInit ==
    /\ net = <<>>
    /\ sockbuf = <<>>
    /\ rframe = <<>>
    /\ expected_types = [c \in RdChans |-> "METHOD"]
    /\ partial_methods = [c \in RdChans |-> 0]
    /\ methods_read = <<>>
    /\ connected = TRUE
    /\ sock_timeout = "none"
    /\ reader = [pc |-> "idle", timed |-> FALSE, orig |-> "none", result |-> "none",
                 calls |-> 0]
    /\ unexpected = FALSE
    /\ inPeer = [methods |-> 0, faults |-> 0, closed |-> FALSE]

\* SpecHandshake: proposals for the heartbeat interval and for channel_max
MaxRounds == 2
Heartbeats == {0, 10, 60}
ClientChannelMax == {8, 16}
ServerChannelMax == {0, 4, 32}

HsInit ==
    /\ hs = [pc |-> "new", channel_max |-> 0, client_heartbeat |-> 0, server_heartbeat |-> 0,
             heartbeat |-> 0]
    /\ hsIn = <<>>
    /\ hsOut = <<>>
    /\ hsPeer = [stage |-> "idle", rounds |-> 0]
    /\ hsTrace = <<>>

\* SpecPublish: calls of basic_publish in one run
MaxPublishes == 2
\* the bytes a message body is made of
Bytes == {1, 2}

PubInit ==
    /\ pub = [pc |-> "new", lock |-> FALSE, frame_max |-> 0, result |-> "-"]
    /\ frames = <<>>
    /\ sent = <<>>
    /\ published = <<>>

\* SpecMode: operations on the Channel in one run
MaxModeOps == 8

ModeInit ==
    /\ mch = [pc |-> "idle", op |-> "-", is_open |-> TRUE, mode |-> "NONE", result |-> "-",
              n |-> 0]
    /\ mOut = <<>>
    /\ mIn = <<>>
    /\ mSrv = [open |-> TRUE, mode |-> "NONE"]

ErrInit == ec = [pc |-> "idle"]

\* SpecAlive: events and calls of is_alive in one run
MaxAlive == 4

AlInit ==
    /\ al = [transport |-> TRUE, sock |-> TRUE, connected |-> TRUE, peer |-> "open",
             pending |-> FALSE, last |-> "-", result |-> "-", n |-> 0]
    /\ probes = <<>>

\* SpecBlocked: connection.blocked / unblocked notices and RPCs in one run
MaxNotices == 3
MaxRpcs == 2

BkInit ==
    /\ bk = [pc |-> "new", open |-> TRUE, ch_open |-> TRUE, on_blocked |-> FALSE,
             on_unblocked |-> FALSE, n |-> 0, result |-> 0]
    /\ bkIn = <<>>
    /\ bkQ = [c \in 0..1 |-> <<>>]
    /\ bkCalls = <<>>
    /\ bkPeer = [owes |-> <<>>, notices |-> 0]

CxInit == cx = [pc |-> "idle"]

\* SpecLock: calls of queue_declare in one run
MaxLockCalls == 5

lkThr == lk.thr        \* each thread's position in queue_declare, and its outcome
lkLock == lk.lock      \* Channel.lock: 0 when free, else the thread holding it
lkChan == lk.chan      \* the Channel: is_open, connection (FALSE for None)
lkSock == lk.sock      \* the socket: connected, and whether a timeout is set on it
lkOut == lk.out        \* requests written, not yet handled by the broker
lkIn == lk.inc         \* methods from the broker, not yet read
lkExits == lk.exits    \* the ways in which calls have ended so far
lkCalls == lk.calls    \* calls made

LkInit ==
    lk = [thr |-> [t \in Threads |-> [pc |-> "idle", nowait |-> FALSE,
                                      arguments |-> "table", result |-> "none"]],
          lock |-> 0,
          chan |-> [is_open |-> TRUE, connection |-> TRUE],
          sock |-> [connected |-> TRUE, timeout |-> FALSE],
          out |-> <<>>,
          inc |-> <<>>,
          exits |-> {},
          calls |-> 0]

\* SpecAssemble: frames the peer sends in one run, and the channels it uses
MaxFrames == 5
AsmChans == 1..2

asmPc == asm.pc                \* the thread: "idle", or "next" inside read_method
asmExpected == asm.expected    \* MethodReader.expected_types
asmPartial == asm.partial      \* MethodReader.partial_methods: the method a channel assembles, or Nil
asmFifo == asm.fifo            \* MethodReader.method_queue: methods and errors not yet popped
asmSeen == asm.seen            \* the frames read_frame has returned, in order
asmReturned == asm.returned    \* what read_method has returned or raised, in order

AsmInit ==
    asm = [pc |-> "idle",
           expected |-> [c \in {0} \cup AsmChans |-> "METHOD"],
           partial |-> [c \in AsmChans |-> Nil],
           fifo |-> <<>>,
           seen |-> <<>>,
           returned |-> <<>>]

\* SpecOrder: operations on the Channel in one run
MaxOrderOps == 3

OdInit ==
    /\ od = [pc |-> "idle", op |-> "-", req |-> 0, got |-> 0, n |-> 0]
    /\ odOut = <<>>
    /\ odIn = <<>>
    /\ odQ = <<>>

\* SpecGet: calls of basic_get and basic_publish, and messages other clients enqueue
MaxGets == 3
MaxMessages == 2

BgInit ==
    /\ bg = [pc |-> "idle", result |-> "-", gets |-> 0, published |-> FALSE]
    /\ bgOut = <<>>
    /\ bgIn = <<>>
    /\ bgQ = <<>>
    /\ bgPeer = [messages |-> 0, enqueued |-> 0, answer |-> "-"]

\* SpecConfirm: calls on the Channel in one run
MaxConfirmCalls == 3

CfInit ==
    /\ cf = [pc |-> "new", lock |-> 0, confirm_selected |-> FALSE, confirm_publish |-> FALSE,
             n |-> 0]
    /\ cfThr = [t \in Threads |-> <<>>]
    /\ cfOut = <<>>
    /\ cfIn = <<>>
    /\ cfQ = <<>>
    /\ cfSrv = [confirm |-> FALSE]

Init ==
    /\ LkInit
    /\ AsmInit
    /\ OdInit
    /\ BgInit
    /\ CfInit
    /\ CxInit
    /\ BkInit
    /\ AlInit
    /\ ErrInit
    /\ ModeInit
    /\ EvInit
    /\ RdInit
    /\ HsInit
    /\ PubInit
    /\ conn = [open |-> TRUE,
               channels |-> [i \in 0..MaxChannels |-> IF i = 0 THEN ConnObj ELSE Nil],
               avail |-> InitialIds]
    /\ transport = [sock |-> TRUE, connected |-> TRUE]
    /\ chan = [o \in Objs |-> NewChan]
    /\ lock = [o \in Objs |-> 0]
    /\ inbox = [o \in {ConnObj} \cup Objs |-> <<>>]
    /\ selectOk = {}
    /\ pc = [t \in Threads |-> "idle"]
    /\ op = [t \in Threads |-> "none"]
    /\ obj = [t \in Threads |-> ConnObj]
    /\ arg = [t \in Threads |-> NoArg]
    /\ result = [t \in Threads |-> "none"]
    /\ c2s = <<>>
    /\ s2c = <<>>
    /\ srv = [alive |-> TRUE, confirm |-> {}, ch_closing |-> {}, closing |-> FALSE]
    /\ nOps = 0
    /\ nErrs = 0
    /\ wire = <<>>
    /\ wlock = 0
    /\ wframes = [t \in Threads |-> <<>>]
    /\ wpos = [t \in Threads |-> 0]
    /\ wseq = 0

\* ------------------------------------------------------------- teardown
\* Channel._do_close: what it sets on the Channel
ChannelDoClose(c) ==
    [c EXCEPT !.is_open = FALSE, !.channel_id = Nil, !.connection = FALSE,
              !.callbacks = {}, !.cancel_callbacks = {}, !.no_ack_consumers = {}]

\* Channel._do_close: `if connection:` pop the id from the map and return it to the pool
ReleaseIdLeak(cn, c) ==
    IF c.connection THEN [cn EXCEPT !.channels[c.channel_id] = Nil] ELSE cn

ReleaseId(cn, c) ==
    IF c.connection
    THEN [cn EXCEPT !.channels[c.channel_id] = Nil, !.avail = Append(@, c.channel_id)]
    ELSE cn

\* Channel._open_ok
OpenOkLost(c) == c

OpenOk(c) == [c EXCEPT !.is_open = TRUE]

\* Connection._do_close: temp_list, the Channels in the map
Registered(cn) == {cn.channels[i] : i \in Ids} \ {Nil}

ClosedConn(av) == [open |-> FALSE, channels |-> [i \in 0..MaxChannels |-> Nil], avail |-> av]

\* Connection._do_close.  shutdownFails: sock.shutdown raised socket.error (the peer has
\* closed its end), which skips sock.close() and the loop over the channels.
ConnDoClose(shutdownFails, tr, cn, ch) ==
    IF shutdownFails
    THEN [transport |-> tr, conn |-> ClosedConn(cn.avail), chan |-> ch]
    ELSE LET reg == Registered(cn)
             back == SeqOfSet({ch[o].channel_id : o \in {x \in reg : ch[x].connection}})
         IN [transport |-> [sock |-> FALSE, connected |-> FALSE],
             conn |-> ClosedConn(cn.avail \o back),
             chan |-> [o \in Objs |-> IF o \in reg THEN ChannelDoClose(ch[o]) ELSE ch[o]]]

ShutdownOutcomes == IF transport.sock /\ ~srv.alive THEN {FALSE, TRUE} ELSE {FALSE}

\* ---------------------------------------------------------- thread exits
Ref(o) == IF o = ConnObj THEN conn.open ELSE chan[o].connection
MyId(o) == IF o = ConnObj THEN 0 ELSE chan[o].channel_id

\* Transport.write_frame succeeds: there is a socket and the peer has not closed it
CanWrite == transport.sock /\ srv.alive

\* Transport.write_frame, `except (OSError, IOError, socket.error)`: connected = False
WriteFailed(tr) == IF tr.sock THEN [tr EXCEPT !.connected = FALSE] ELSE tr

\* synchronized: `finally: lock.release()`
Released(t) == IF op[t] \in LockedOps THEN [lock EXCEPT ![obj[t]] = 0] ELSE lock

\* Channel.close: `finally: self.connection = None`; Channel.__init__ returning the object
Unwound(t, res, ch) ==
    IF op[t] = "close" THEN [ch EXCEPT ![obj[t]].connection = FALSE]
    ELSE IF op[t] = "open" /\ res = "ok" THEN [ch EXCEPT ![obj[t]].born = "live"]
    ELSE ch

\* the operation of thread t returns (res = "ok") or raises res
Finish(t, res, ch) ==
    /\ pc' = [pc EXCEPT ![t] = "idle"]
    /\ result' = [result EXCEPT ![t] = res]
    /\ lock' = Released(t)
    /\ chan' = Unwound(t, res, ch)


\* ------------------------------------------------------------ handlers
\* AbstractChannel._wait_method: [spec.Channel.Close] + allowed_methods; a revive waits
\* for channel.open-ok (Channel._x_open)
Reviving(t) == pc[t] \in {"rscan", "rread"}
Allowed(t) ==
    {"channel.close"} \cup (IF Reviving(t) THEN {"channel.open-ok"} ELSE OpAllowed(op[t]))

\* index of the first queued method whose type is allowed, 0 if none
FirstAllowed(q, A) ==
    IF \E i \in 1..Len(q) : q[i].ty \in A
    THEN CHOOSE i \in 1..Len(q) : q[i].ty \in A /\ \A j \in 1..(i - 1) : q[j].ty \notin A
    ELSE 0

\* basic_consume after its wait: callbacks[consumer_tag] = callback, and the options
Consuming(c, a) ==
    [c EXCEPT !.callbacks = @ \cup {Tag},
              !.cancel_callbacks = IF a.on_cancel THEN @ \cup {Tag} ELSE @,
              !.no_ack_consumers = IF a.no_ack THEN @ \cup {Tag} ELSE @]

\* the mutation: the close is not answered
CloseOkSkipped(c) == <<>>

\* Channel._close / Connection._x_close_ok: the close-ok that answers a close
CloseOkFor(c) == <<Meth(c, IF c = 0 THEN "connection.close-ok" ELSE "channel.close-ok")>>

\* Channel._open_ok: the constructor returns; a revive (Channel._close) raises the error
HandleOpenOk(t) ==
    /\ Finish(t, IF Reviving(t) THEN "ChannelError" ELSE "ok",
              [chan EXCEPT ![obj[t]] = OpenOk(@)])
    /\ UNCHANGED <<conn, transport, selectOk, c2s, srv>>

\* Channel._close: send channel.close-ok, _do_revive (is_open = False, channel.open, wait)
HandleChannelClose(t) ==
    IF ~chan[obj[t]].connection
    THEN /\ Finish(t, "RecoverableConnectionError", chan)
         /\ UNCHANGED <<conn, transport, selectOk, c2s, srv>>
    ELSE IF ~CanWrite
    THEN /\ Finish(t, "IOError", chan)
         /\ transport' = WriteFailed(transport)
         /\ UNCHANGED <<conn, selectOk, c2s, srv>>
    ELSE /\ c2s' = c2s \o CloseOkFor(chan[obj[t]].channel_id)
                      \o <<Meth(chan[obj[t]].channel_id, "channel.open")>>
         /\ chan' = [chan EXCEPT ![obj[t]].is_open = FALSE]
         /\ selectOk' = selectOk \ {obj[t]}
         /\ pc' = [pc EXCEPT ![t] = "rscan"]
         /\ UNCHANGED <<conn, transport, lock, result, srv>>

\* Channel._close_ok: _do_close
HandleChannelCloseOk(t) ==
    /\ conn' = ReleaseId(conn, chan[obj[t]])
    /\ Finish(t, "ok", [chan EXCEPT ![obj[t]] = ChannelDoClose(@)])
    /\ selectOk' = selectOk \ {obj[t]}
    /\ UNCHANGED <<transport, c2s, srv>>

\* the -ok handlers of queue_declare, confirm_select and basic_consume
HandleReply(t) ==
    /\ Finish(t, "ok", IF op[t] = "basic_consume"
                       THEN [chan EXCEPT ![obj[t]] = Consuming(@, arg[t])]
                       ELSE chan)
    /\ selectOk' = IF op[t] = "confirm_select" THEN selectOk \cup {obj[t]} ELSE selectOk
    /\ UNCHANGED <<conn, transport, c2s, srv>>

\* Connection._close_ok: _do_close
HandleConnectionCloseOk(t, stay) ==
    \E f \in ShutdownOutcomes :
        LET after == ConnDoClose(f, transport, conn, chan) IN
        /\ conn' = after.conn
        /\ transport' = after.transport
        /\ selectOk' = selectOk
        /\ IF stay
           THEN chan' = after.chan /\ UNCHANGED <<pc, result, lock>>
           ELSE Finish(t, "ok", after.chan)
        /\ UNCHANGED <<c2s, srv>>

\* Connection._close: _x_close_ok (connection.close-ok, then _do_close), raise the error
HandleConnectionClose(t) ==
    IF ~conn.open
    THEN /\ Finish(t, "RecoverableConnectionError", chan)
         /\ UNCHANGED <<conn, transport, selectOk, c2s, srv>>
    ELSE IF ~CanWrite
    THEN /\ Finish(t, "IOError", chan)
         /\ transport' = WriteFailed(transport)
         /\ UNCHANGED <<conn, selectOk, c2s, srv>>
    ELSE \E f \in ShutdownOutcomes :
        LET after == ConnDoClose(f, transport, conn, chan) IN
        /\ c2s' = c2s \o CloseOkFor(0)
        /\ conn' = after.conn
        /\ transport' = after.transport
        /\ Finish(t, "ConnectionError", after.chan)
        /\ UNCHANGED <<selectOk, srv>>

\* AbstractChannel.handle_method on the object the thread waits for: METHOD_MAP
Handle(t, m) ==
    CASE m.ty = "channel.open-ok" -> HandleOpenOk(t)
      [] m.ty = "channel.close" -> HandleChannelClose(t)
      [] m.ty = "channel.close-ok" -> HandleChannelCloseOk(t)
      [] m.ty = "connection.close-ok" -> HandleConnectionCloseOk(t, FALSE)
      [] m.ty = "connection.close" -> HandleConnectionClose(t)
      [] OTHER -> HandleReply(t)


\* ------------------------------------------------------ application calls
\* synchronized: lock.acquire() returns once the lock is free
CanAcquireAlways(o) == TRUE

CanAcquire(o) == lock[o] = 0

\* AbstractChannel._send_method: `if self.connection is None: raise`
MaySendAlways(c) == TRUE

MaySend(c) == c.connection

\* the application calls a lock-decorated operation on a Channel it holds
CallOp(t, o, k, a) ==
    /\ pc[t] = "idle" /\ nOps < MaxOps
    /\ chan[o].born = "live"
    /\ pc' = [pc EXCEPT ![t] = "acquire"]
    /\ op' = [op EXCEPT ![t] = k]
    /\ obj' = [obj EXCEPT ![t] = o]
    /\ arg' = [arg EXCEPT ![t] = a]
    /\ nOps' = nOps + 1
    /\ UNCHANGED <<conn, transport, chan, lock, inbox, selectOk, result, c2s, s2c, srv, nErrs>>
    /\ UNCHANGED offChan

\* synchronized('lock'): the wrapper acquires the Channel's lock
Acquire(t) ==
    /\ pc[t] = "acquire"
    /\ CanAcquire(obj[t])
    /\ lock' = [lock EXCEPT ![obj[t]] = t]
    /\ pc' = [pc EXCEPT ![t] = "body"]
    /\ UNCHANGED <<conn, transport, chan, inbox, selectOk, op, obj, arg, result,
                   c2s, s2c, srv, nOps, nErrs>>
    /\ UNCHANGED offChan

\* Channel.close on a Channel that is not open or has no connection: return
CloseNothing(t) ==
    /\ pc[t] = "body" /\ op[t] = "close"
    /\ ~chan[obj[t]].is_open \/ ~chan[obj[t]].connection
    /\ Finish(t, "ok", chan)
    /\ UNCHANGED <<conn, transport, inbox, selectOk, op, obj, arg, c2s, s2c, srv, nOps, nErrs>>
    /\ UNCHANGED offChan

\* the body of an operation up to its _send_method
Body(t) ==
    /\ pc[t] = "body"
    /\ op[t] = "close" => chan[obj[t]].is_open /\ chan[obj[t]].connection
    /\ IF ~MaySend(chan[obj[t]])
       THEN /\ Finish(t, "RecoverableConnectionError", chan)
            /\ UNCHANGED <<transport, c2s>>
       ELSE IF ~CanWrite
       THEN /\ Finish(t, "IOError", chan)
            /\ transport' = WriteFailed(transport)
            /\ c2s' = c2s
       ELSE /\ c2s' = Append(c2s, Meth(chan[obj[t]].channel_id, Request(op[t])))
            /\ transport' = transport
            /\ IF op[t] = "basic_publish"
               THEN Finish(t, "ok", chan)
               ELSE /\ pc' = [pc EXCEPT ![t] = "scan"]
                    /\ UNCHANGED <<chan, lock, result>>
    /\ UNCHANGED <<conn, inbox, selectOk, op, obj, arg, s2c, srv, nOps, nErrs>>
    /\ UNCHANGED offChan

\* the mutation: the free id is read at the other end of the pool than the one popped
TakeIdStale(cn, id) ==
    IF id = Nil
    THEN (IF Len(cn.avail) = 0 THEN Nil ELSE cn.avail[1])
    ELSE (IF \E i \in 1..Len(cn.avail) : cn.avail[i] = id THEN id ELSE Nil)

\* Connection._get_free_channel_id / _claim_channel_id: the id taken, Nil if there is none
TakeId(cn, id) ==
    IF id = Nil
    THEN (IF Len(cn.avail) = 0 THEN Nil ELSE cn.avail[Len(cn.avail)])
    ELSE (IF \E i \in 1..Len(cn.avail) : cn.avail[i] = id THEN id ELSE Nil)

\* array.pop() / array.remove(x): the pool without (the last occurrence popped, the
\* first occurrence removed)
Without(av, id, popped) ==
    LET i == IF popped THEN Len(av) ELSE CHOOSE j \in 1..Len(av) :
                                             av[j] = id /\ \A k \in 1..(j - 1) : av[k] # id
    IN RemoveAt(av, i)

Unborn == {o \in Objs : chan[o].born = "no"}

\* Connection.channel(channel_id) for an id that is in the map: the Channel registered
ChannelLookup(t, id) ==
    /\ pc[t] = "idle" /\ nOps < MaxOps
    /\ conn.open
    /\ id # Nil /\ conn.channels[id] # Nil
    /\ nOps' = nOps + 1
    /\ op' = [op EXCEPT ![t] = "channel"]
    /\ obj' = [obj EXCEPT ![t] = conn.channels[id]]
    /\ arg' = [arg EXCEPT ![t] = NoArg]
    /\ result' = [result EXCEPT ![t] = "ok"]
    /\ UNCHANGED <<conn, transport, chan, lock, inbox, selectOk, pc, c2s, s2c, srv, nErrs>>
    /\ UNCHANGED offChan

\* Channel(connection, channel_id), also reached from Connection.channel(channel_id) for
\* an id not in the map: Channel.__init__ takes the id, registers the Channel and opens
\* it (_x_open)
ChannelCtor(t, id) ==
    /\ pc[t] = "idle" /\ nOps < MaxOps
    /\ Unborn # {} \/ TakeId(conn, id) = Nil
    /\ conn.open
    /\ nOps' = nOps + 1
    /\ op' = [op EXCEPT ![t] = "open"]
    /\ arg' = [arg EXCEPT ![t] = NoArg]
    /\ LET o == CHOOSE x \in Unborn : \A y \in Unborn : x <= y
           got == TakeId(conn, id)
       IN IF got = Nil
          THEN /\ pc' = pc
               /\ result' = [result EXCEPT ![t] = IF id = Nil THEN "ResourceError"
                                                               ELSE "ConnectionError"]
               /\ UNCHANGED <<conn, transport, chan, obj, c2s>>
          ELSE /\ conn' = [conn EXCEPT !.channels[got] = o,
                                       !.avail = Without(@, got, id = Nil)]
               /\ obj' = [obj EXCEPT ![t] = o]
               /\ IF CanWrite
                  THEN /\ chan' = [chan EXCEPT ![o] = [NewChan EXCEPT !.born = "init",
                                        !.channel_id = got, !.connection = TRUE]]
                       /\ c2s' = Append(c2s, Meth(got, "channel.open"))
                       /\ pc' = [pc EXCEPT ![t] = "scan"]
                       /\ UNCHANGED <<transport, result>>
                  ELSE /\ chan' = [chan EXCEPT ![o] = [NewChan EXCEPT !.born = "init",
                                        !.channel_id = got, !.connection = TRUE]]
                       /\ transport' = WriteFailed(transport)
                       /\ result' = [result EXCEPT ![t] = "IOError"]
                       /\ UNCHANGED <<pc, c2s>>
    /\ UNCHANGED <<lock, inbox, selectOk, s2c, srv, nErrs>>
    /\ UNCHANGED offChan

\* Connection.close
ConnectionClose(t) ==
    /\ pc[t] = "idle" /\ nOps < MaxOps
    /\ nOps' = nOps + 1
    /\ op' = [op EXCEPT ![t] = "conn_close"]
    /\ obj' = [obj EXCEPT ![t] = ConnObj]
    /\ arg' = [arg EXCEPT ![t] = NoArg]
    /\ IF ~conn.open
       THEN /\ result' = [result EXCEPT ![t] = "ok"]
            /\ UNCHANGED <<pc, transport, c2s>>
       ELSE IF ~CanWrite
       THEN /\ result' = [result EXCEPT ![t] = "IOError"]
            /\ transport' = WriteFailed(transport)
            /\ UNCHANGED <<pc, c2s>>
       ELSE /\ c2s' = Append(c2s, Meth(0, "connection.close"))
            /\ pc' = [pc EXCEPT ![t] = "scan"]
            /\ UNCHANGED <<transport, result>>
    /\ UNCHANGED <<conn, chan, lock, inbox, selectOk, s2c, srv, nErrs>>
    /\ UNCHANGED offChan


\* ------------------------------------------------------------ the wait
Waiting(t) == pc[t] \in {"scan", "read", "rscan", "rread"}

\* AbstractChannel._wait_method, before its loop: the Channel's own method_queue
ScanInbox(t) ==
    /\ pc[t] \in {"scan", "rscan"}
    /\ IF ~Ref(obj[t]) \/ ~conn.open \/ MyId(obj[t]) = Nil
       THEN /\ Finish(t, "AttributeError", chan)
            /\ UNCHANGED <<conn, transport, inbox, selectOk, c2s, srv>>
       ELSE LET q == conn.channels[MyId(obj[t])]
                i == FirstAllowed(inbox[q], Allowed(t))
            IN IF i = 0
               THEN /\ pc' = [pc EXCEPT ![t] = IF pc[t] = "scan" THEN "read" ELSE "rread"]
                    /\ UNCHANGED <<conn, transport, chan, lock, inbox, selectOk, result, c2s, srv>>
               ELSE /\ inbox' = [inbox EXCEPT ![q] = RemoveAt(@, i)]
                    /\ Handle(t, inbox[q][i])
    /\ UNCHANGED <<op, obj, arg, s2c, nOps, nErrs>>
    /\ UNCHANGED offChan

\* the read fails: the Channel lost its connection, there is no socket, or the peer
\* closed its end and nothing is left to read (Transport.read_frame: connected = False)
ReadFails(t) ==
    /\ pc[t] \in {"read", "rread"}
    /\ ~Ref(obj[t]) \/ ~transport.sock \/ (s2c = <<>> /\ ~srv.alive)
    /\ Finish(t, IF ~Ref(obj[t]) THEN "AttributeError" ELSE "IOError", chan)
    /\ transport' = IF Ref(obj[t]) THEN WriteFailed(transport) ELSE transport
    /\ UNCHANGED <<conn, inbox, selectOk, op, obj, arg, c2s, s2c, srv, nOps, nErrs>>
    /\ UNCHANGED offChan

CanRead(t) ==
    /\ pc[t] \in {"read", "rread"}
    /\ Ref(obj[t]) /\ transport.sock /\ s2c # <<>>

\* _wait_method: the method read is for this channel and allowed
ReadOwn(t) ==
    /\ CanRead(t)
    /\ Head(s2c).ch = MyId(obj[t]) /\ Head(s2c).ty \in Allowed(t)
    /\ s2c' = Tail(s2c)
    /\ Handle(t, Head(s2c))
    /\ UNCHANGED <<inbox, op, obj, arg, nOps, nErrs>>
    /\ UNCHANGED offChan

\* _wait_method: the method read is queued for the channel it is addressed to
ReadOther(t) ==
    /\ CanRead(t)
    /\ ~(Head(s2c).ch = MyId(obj[t]) /\ Head(s2c).ty \in Allowed(t))
    /\ Head(s2c).ch # 0
    /\ s2c' = Tail(s2c)
    /\ IF ~conn.open \/ conn.channels[Head(s2c).ch] = Nil
       THEN /\ Finish(t, IF conn.open THEN "KeyError" ELSE "TypeError", chan)
            /\ inbox' = inbox
       ELSE /\ inbox' = [inbox EXCEPT ![conn.channels[Head(s2c).ch]] = Append(@, Head(s2c))]
            /\ UNCHANGED <<chan, lock, pc, result>>
    /\ UNCHANGED <<conn, transport, selectOk, op, obj, arg, c2s, srv, nOps, nErrs>>
    /\ UNCHANGED offChan

\* _wait_method: a method for channel 0 is queued for the Connection, and
\* self.connection.wait() handles the first method of that queue at once
ReadConnection(t) ==
    /\ CanRead(t)
    /\ ~(Head(s2c).ch = MyId(obj[t]) /\ Head(s2c).ty \in Allowed(t))
    /\ Head(s2c).ch = 0
    /\ s2c' = Tail(s2c)
    /\ IF ~conn.open
       THEN /\ Finish(t, "TypeError", chan)
            /\ UNCHANGED <<conn, transport, inbox, selectOk, c2s, srv>>
       ELSE LET q == Append(inbox[ConnObj], Head(s2c)) IN
            /\ inbox' = [inbox EXCEPT ![ConnObj] = Tail(q)]
            /\ IF Head(q).ty = "connection.close"
               THEN HandleConnectionClose(t)
               ELSE HandleConnectionCloseOk(t, TRUE)
    /\ UNCHANGED <<op, obj, arg, nOps, nErrs>>
    /\ UNCHANGED offChan

\* --------------------------------------------------------------- broker
Reply(ms) == s2c' = s2c \o ms

\* the broker takes the next method the client wrote and answers it
Broker ==
    /\ srv.alive /\ c2s # <<>>
    /\ c2s' = Tail(c2s)
    /\ LET m == Head(c2s) IN
       IF srv.closing \/ (m.ch \in srv.ch_closing /\ m.ty # "channel.close-ok"
                                                  /\ m.ty # "channel.close")
       THEN \* a peer that has sent close discards all but close and close-ok
            /\ IF m.ty = "connection.close-ok"
               THEN srv' = [srv EXCEPT !.alive = FALSE] /\ Reply(<<>>)
               ELSE IF m.ty = "connection.close"
               THEN srv' = [srv EXCEPT !.alive = FALSE]
                    /\ Reply(<<Meth(0, "connection.close-ok")>>)
               ELSE srv' = srv /\ Reply(<<>>)
            /\ nErrs' = nErrs
       ELSE CASE m.ty = "channel.open" ->
                   /\ Reply(<<Meth(m.ch, "channel.open-ok")>>)
                   /\ srv' = [srv EXCEPT !.confirm = @ \ {m.ch}]
                   /\ nErrs' = nErrs
              [] m.ty = "channel.close" ->
                   /\ Reply(<<Meth(m.ch, "channel.close-ok")>>)
                   /\ srv' = [srv EXCEPT !.confirm = @ \ {m.ch}, !.ch_closing = @ \ {m.ch}]
                   /\ nErrs' = nErrs
              [] m.ty = "channel.close-ok" ->
                   /\ Reply(<<>>)
                   /\ srv' = [srv EXCEPT !.confirm = @ \ {m.ch}, !.ch_closing = @ \ {m.ch}]
                   /\ nErrs' = nErrs
              [] m.ty = "connection.close" ->
                   /\ Reply(<<Meth(0, "connection.close-ok")>>)
                   /\ srv' = [srv EXCEPT !.alive = FALSE]
                   /\ nErrs' = nErrs
              [] m.ty = "connection.close-ok" ->
                   /\ Reply(<<>>) /\ srv' = srv /\ nErrs' = nErrs
              [] OTHER ->
                   \/ /\ Reply(IF m.ty = "basic.publish"
                               THEN (IF m.ch \in srv.confirm
                                     THEN <<Meth(m.ch, "basic.ack")>> ELSE <<>>)
                               ELSE <<Meth(m.ch, m.ty \o "-ok")>>)
                      /\ srv' = IF m.ty = "confirm.select"
                                THEN [srv EXCEPT !.confirm = @ \cup {m.ch}] ELSE srv
                      /\ nErrs' = nErrs
                   \/ \* a channel error: the broker closes the channel
                      /\ nErrs < MaxErrors
                      /\ Reply(<<Meth(m.ch, "channel.close")>>)
                      /\ srv' = [srv EXCEPT !.ch_closing = @ \cup {m.ch}]
                      /\ nErrs' = nErrs + 1
    /\ UNCHANGED <<conn, transport, chan, lock, inbox, selectOk, pc, op, obj, arg, result, nOps>>
    /\ UNCHANGED offChan

\* the broker closes the connection (connection.close from the server)
BrokerCloses ==
    /\ srv.alive /\ ~srv.closing
    /\ nErrs < MaxErrors
    /\ nErrs' = nErrs + 1
    /\ srv' = [srv EXCEPT !.closing = TRUE]
    /\ Reply(<<Meth(0, "connection.close")>>)
    /\ UNCHANGED <<conn, transport, chan, lock, inbox, selectOk, pc, op, obj, arg, result,
                   c2s, nOps>>
    /\ UNCHANGED offChan

Next ==
    \/ \E t \in Threads, o \in Objs, k \in LockedOps \ {"basic_consume"} : CallOp(t, o, k, NoArg)
    \/ \E t \in Threads, o \in Objs, a \in ConsumeArgs : CallOp(t, o, "basic_consume", a)
    \/ \E t \in Threads : Acquire(t)
    \/ \E t \in Threads : CloseNothing(t)
    \/ \E t \in Threads : Body(t)
    \/ \E t \in Threads, id \in Ids \cup {Nil} : ChannelCtor(t, id)
    \/ \E t \in Threads, id \in Ids : ChannelLookup(t, id)
    \/ \E t \in Threads : ConnectionClose(t)
    \/ \E t \in Threads : ScanInbox(t)
    \/ \E t \in Threads : ReadFails(t)
    \/ \E t \in Threads : ReadOwn(t)
    \/ \E t \in Threads : ReadOther(t)
    \/ \E t \in Threads : ReadConnection(t)
    \/ Broker
    \/ BrokerCloses

Spec == Init /\ [][Next]_vars

\* ---------------------------------------------------------------- wire
\* Frame: frame type, channel, the serial of the method it belongs to, and for a
\* body frame the number of the chunk it carries
Frame(ty, c, n, k) == [ty |-> ty, ch |-> c, n |-> n, chunk |-> k]

\* Method._pack_body: range(0, len(body), chunk_size)
Chunks(blen, size) == (blen + size - 1) \div size

\* the mutation: the header frame is queued before the method frame
MethodFramesSwapped(c, n, content, blen) ==
    IF content
    THEN <<Frame("HEADER", c, n, 0), Frame("METHOD", c, n, 0)>>
         \o [k \in 1..Chunks(blen, FrameMax - 8) |-> Frame("BODY", c, n, k)]
    ELSE <<Frame("METHOD", c, n, 0)>>

\* MethodWriter.write_method: the queue of frames it prepares
MethodFrames(c, n, content, blen) ==
    <<Frame("METHOD", c, n, 0)>>
    \o (IF content
        THEN <<Frame("HEADER", c, n, 0)>>
             \o [k \in 1..Chunks(blen, FrameMax - 8) |-> Frame("BODY", c, n, k)]
        ELSE <<>>)

\* each thread works on a channel of its own
ChannelOf(t) == t

\* write_method up to its write loop
WriteMethod(t, content, blen) ==
    /\ wframes[t] = <<>> /\ wseq < MaxWrites
    /\ content \/ blen = 0
    /\ wseq' = wseq + 1
    /\ wframes' = [wframes EXCEPT ![t] = MethodFrames(ChannelOf(t), wseq + 1, content, blen)]
    /\ UNCHANGED <<wire, wlock, wpos>>
    /\ UNCHANGED offWire

\* Transport.send_heartbeat: write_frame(Frame(FrameType.HEARTBEAT))
SendHeartbeat(t) ==
    /\ wframes[t] = <<>> /\ wseq < MaxWrites
    /\ wseq' = wseq + 1
    /\ wframes' = [wframes EXCEPT ![t] = <<Frame("HEARTBEAT", 0, wseq + 1, 0)>>]
    /\ UNCHANGED <<wire, wlock, wpos>>
    /\ UNCHANGED offWire

\* the mutation: write_frame without its lock
FrameLockFreeAlways(t) == TRUE

\* synchronized('_frame_write_lock'): an RLock
FrameLockFree(t) == wlock \in {0, t}

\* write_frame is entered: the lock is taken
EnterWriteFrame(t) ==
    /\ wframes[t] # <<>> /\ wpos[t] = 0
    /\ FrameLockFree(t)
    /\ wlock' = t
    /\ wpos' = [wpos EXCEPT ![t] = 1]
    /\ UNCHANGED <<wire, wframes, wseq>>
    /\ UNCHANGED offWire

\* sock.sendall(frame.data): one send(); after the last one write_frame returns,
\* the lock is released and the write loop takes the next frame
Send(t) ==
    /\ wpos[t] > 0
    /\ wire' = Append(wire, [frame |-> Head(wframes[t]), part |-> wpos[t]])
    /\ IF wpos[t] = FrameParts
       THEN /\ wpos' = [wpos EXCEPT ![t] = 0]
            /\ wframes' = [wframes EXCEPT ![t] = Tail(@)]
            /\ wlock' = IF wlock = t THEN 0 ELSE wlock
       ELSE /\ wpos' = [wpos EXCEPT ![t] = @ + 1]
            /\ UNCHANGED <<wframes, wlock>>
    /\ wseq' = wseq
    /\ UNCHANGED offWire

NextWire ==
    \/ \E t \in Threads, content \in BOOLEAN, blen \in 0..MaxBody : WriteMethod(t, content, blen)
    \/ \E t \in Threads : SendHeartbeat(t)
    \/ \E t \in Threads : EnterWriteFrame(t)
    \/ \E t \in Threads : Send(t)

SpecWire == Init /\ [][NextWire]_vars

\* ================================================================ events
\* Consumers, returned messages and drain_events on a connection whose
\* Channels EvChans are open.  Methods from the broker carry the consumer tag
\* they name and the serial number n the broker gave them (the delivery tag of
\* a basic.deliver).
EvMeth(c, ty, g, n) == [ch |-> c, ty |-> ty, tag |-> g, n |-> n]
EvReq(c, ty, g, mandatory) == [ch |-> c, ty |-> ty, tag |-> g, mandatory |-> mandatory]

\* methods dispatched inside any wait, whatever it waits for
IMMEDIATE_METHODS == {"basic.return"}

OnCancelAll(c, g) ==
    /\ callbacks' = [callbacks EXCEPT ![c] = [h \in Tags |-> "absent"]]
    /\ cancel_callbacks' = [cancel_callbacks EXCEPT ![c] = {}]

\* Channel._on_cancel
OnCancel(c, g) ==
    /\ callbacks' = [callbacks EXCEPT ![c][g] = "absent"]
    /\ cancel_callbacks' = [cancel_callbacks EXCEPT ![c] = @ \ {g}]

DeliveryInfoBlank(m) == [consumer_tag |-> NoTag, delivery_tag |-> m.n]

\* the delivery_info Channel._basic_deliver sets on the message
DeliveryInfo(m) == [consumer_tag |-> m.tag, delivery_tag |-> m.n]

\* what a cancel callback is called with
CancelInfo(m) == [consumer_tag |-> m.tag, delivery_tag |-> 0]

BasicReturnDropped(m) == returned_messages' = returned_messages

\* Channel._basic_return
BasicReturn(m) ==
    returned_messages' = [returned_messages EXCEPT ![m.ch] = Append(@, m.n)]

\* AbstractChannel.handle_method: the handler Channel.METHOD_MAP has for m;
\* res is "ok" when it returns and the exception when it raises
HandleMethod(m, res) ==
    CASE m.ty = "basic.return" ->
            /\ BasicReturn(m)
            /\ res = "ok"
            /\ UNCHANGED <<callbacks, cancel_callbacks, calls>>
      [] m.ty = "basic.deliver" ->
            /\ IF callbacks[m.ch][m.tag] = "fn"
               THEN /\ calls' = Append(calls, [fn |-> "callback", ch |-> m.ch,
                                               info |-> DeliveryInfo(m)])
                    /\ res = "ok"
               ELSE /\ calls' = calls
                    /\ res = "Exception"
            /\ UNCHANGED <<returned_messages, callbacks, cancel_callbacks>>
      [] m.ty = "basic.cancel" ->
            /\ OnCancel(m.ch, m.tag)
            /\ IF m.tag \in cancel_callbacks[m.ch]
               THEN /\ calls' = Append(calls, [fn |-> "on_cancel", ch |-> m.ch,
                                               info |-> CancelInfo(m)])
                    /\ res = "ok"
               ELSE /\ calls' = calls
                    /\ res = "ConsumerCancelled"
            /\ UNCHANGED returned_messages
      [] m.ty = "basic.cancel-ok" ->
            /\ OnCancel(m.ch, m.tag)
            /\ res = "ok"
            /\ UNCHANGED <<returned_messages, calls>>
      [] OTHER ->
            /\ res = "ok"
            /\ UNCHANGED <<returned_messages, callbacks, cancel_callbacks, calls>>

Outcomes == {"ok", "Exception", "ConsumerCancelled", "ChannelError"}

\* Connection._dispatch_basic_return: no handler is registered in
\* channel.events, so the mapped error is raised
DispatchBasicReturn(m, res) ==
    /\ res = "ChannelError"
    /\ UNCHANGED <<returned_messages, callbacks, cancel_callbacks, calls>>

\* basic_publish: written under the Channel's lock, no wait
EvPublish(t, c, mandatory) ==
    /\ caller[t].pc = "idle" /\ nEvOps < MaxEvOps /\ chlock[c] = 0
    /\ toPeer' = Append(toPeer, EvReq(c, "basic.publish", NoTag, mandatory))
    /\ caller' = [caller EXCEPT ![t] = [Resting EXCEPT !.op = "basic_publish", !.ch = c,
                                                       !.result = "ok"]]
    /\ nEvOps' = nEvOps + 1
    /\ UNCHANGED <<method_queue, callbacks, cancel_callbacks, no_ack_consumers,
                   returned_messages, chlock, fromPeer, peer, calls, rcvd, dispatched, taken>>
    /\ UNCHANGED offEvents

\* queue_declare, basic_consume, basic_cancel up to their wait(): the lock is
\* taken and the request written; basic_cancel first discards the tag from
\* no_ack_consumers
EvCall(t, c, k, g, cb, oc, na) ==
    /\ caller[t].pc = "idle" /\ nEvOps < MaxEvOps /\ chlock[c] = 0
    /\ chlock' = [chlock EXCEPT ![c] = t]
    /\ no_ack_consumers' = IF k = "basic_cancel"
                           THEN [no_ack_consumers EXCEPT ![c] = @ \ {g}]
                           ELSE no_ack_consumers
    /\ toPeer' = Append(toPeer, EvReq(c, Request(k), g, FALSE))
    /\ caller' = [caller EXCEPT ![t] = [pc |-> "scan", op |-> k, ch |-> c, tag |-> g,
                                        callback |-> cb, on_cancel |-> oc, no_ack |-> na,
                                        result |-> "none"]]
    /\ nEvOps' = nEvOps + 1
    /\ UNCHANGED <<method_queue, callbacks, cancel_callbacks, returned_messages,
                   fromPeer, peer, calls, rcvd, dispatched, taken>>
    /\ UNCHANGED offEvents

\* the operation of thread t once its wait() has returned method m: the
\* handler's value is used (basic_consume registers under the tag of
\* consume-ok), the lock is released
EvReturn(t, m) ==
    LET a == caller[t] IN
    /\ CASE a.op = "basic_consume" ->
              /\ callbacks' = [callbacks EXCEPT ![a.ch][m.tag] = a.callback]
              /\ cancel_callbacks' = IF a.on_cancel
                                     THEN [cancel_callbacks EXCEPT ![a.ch] = @ \cup {m.tag}]
                                     ELSE cancel_callbacks
              /\ no_ack_consumers' = IF a.no_ack
                                     THEN [no_ack_consumers EXCEPT ![a.ch] = @ \cup {m.tag}]
                                     ELSE no_ack_consumers
         [] a.op = "basic_cancel" ->
              /\ OnCancel(a.ch, m.tag)
              /\ UNCHANGED no_ack_consumers
         [] OTHER -> UNCHANGED <<callbacks, cancel_callbacks, no_ack_consumers>>
    /\ chlock' = [chlock EXCEPT ![a.ch] = 0]
    /\ caller' = [caller EXCEPT ![t] = [a EXCEPT !.pc = "idle", !.result = "ok"]]
    /\ UNCHANGED <<returned_messages, calls>>

EvAllowed(t) == {"channel.close"} \cup OpAllowed(caller[t].op)

\* _wait_method, first part: the Channel's own method_queue
EvScanInbox(t) ==
    LET q == method_queue[caller[t].ch]
        hits == {i \in 1..Len(q) : q[i].ty \in EvAllowed(t)}
    IN
    /\ caller[t].pc = "scan"
    /\ IF hits # {}
       THEN LET i == CHOOSE j \in hits : \A h \in hits : j <= h IN
            /\ method_queue' = [method_queue EXCEPT ![caller[t].ch] = RemoveAt(q, i)]
            /\ taken' = taken \cup {q[i].n}
            /\ EvReturn(t, q[i])
       ELSE /\ caller' = [caller EXCEPT ![t].pc = "read"]
            /\ UNCHANGED <<method_queue, callbacks, cancel_callbacks, no_ack_consumers,
                           returned_messages, chlock, calls, taken>>
    /\ UNCHANGED <<toPeer, fromPeer, peer, rcvd, dispatched, nEvOps>>
    /\ UNCHANGED offEvents

EvOwn(t, m) == m.ch = caller[t].ch /\ m.ty \in EvAllowed(t)

\* _wait_method, read loop: the method read is the awaited one
EvReadOwn(t) ==
    /\ caller[t].pc = "read" /\ fromPeer # <<>> /\ EvOwn(t, Head(fromPeer))
    /\ fromPeer' = Tail(fromPeer)
    /\ rcvd' = Append(rcvd, Head(fromPeer))
    /\ taken' = taken \cup {Head(fromPeer).n}
    /\ EvReturn(t, Head(fromPeer))
    /\ UNCHANGED <<method_queue, toPeer, peer, dispatched, nEvOps>>
    /\ UNCHANGED offEvents

\* _wait_method, read loop: an immediate method is handled and the loop goes on
EvReadImmediate(t) ==
    LET m == Head(fromPeer) IN
    /\ caller[t].pc = "read" /\ fromPeer # <<>> /\ ~EvOwn(t, m)
    /\ m.ch # 0 /\ m.ty \in IMMEDIATE_METHODS
    /\ fromPeer' = Tail(fromPeer)
    /\ rcvd' = Append(rcvd, m)
    /\ taken' = taken \cup {m.n}
    /\ HandleMethod(m, "ok")
    /\ UNCHANGED <<method_queue, no_ack_consumers, chlock, caller, toPeer, peer,
                   dispatched, nEvOps>>
    /\ UNCHANGED offEvents

\* the mutation: the method goes to the front of the queue
EnqueueInFront(q, m) == <<m>> \o q

\* `self.connection.channels[ch_id].method_queue.append(method)`
Enqueue(q, m) == Append(q, m)

\* _wait_method, read loop: any other method is queued for its channel
EvReadOther(t) ==
    LET m == Head(fromPeer) IN
    /\ caller[t].pc = "read" /\ fromPeer # <<>> /\ ~EvOwn(t, m)
    /\ ~(m.ch # 0 /\ m.ty \in IMMEDIATE_METHODS)
    /\ fromPeer' = Tail(fromPeer)
    /\ rcvd' = Append(rcvd, m)
    /\ method_queue' = [method_queue EXCEPT ![m.ch] = Enqueue(@, m)]
    /\ UNCHANGED <<callbacks, cancel_callbacks, no_ack_consumers, returned_messages,
                   chlock, caller, toPeer, peer, calls, dispatched, taken, nEvOps>>
    /\ UNCHANGED offEvents

\* drain_events: the override of the Connection if it has one for the method,
\* else the handler of the addressed channel; the call returns or raises
Dispatch(t, m) ==
    /\ \E res \in Outcomes :
          /\ IF m.ty = "basic.return" THEN DispatchBasicReturn(m, res)
                                      ELSE HandleMethod(m, res)
          /\ caller' = [caller EXCEPT ![t] = [Resting EXCEPT !.op = "drain_events",
                                                             !.result = res]]
    /\ dispatched' = Append(dispatched, m.n)
    /\ UNCHANGED <<no_ack_consumers, chlock, toPeer, peer, taken>>

\* the channels whose method_queue holds something, in the order of the map
Queued == {c \in 0..NEvChans : method_queue[c] # <<>>}

\* drain_events, _wait_multiple first part: the first queued method of the
\* first channel that has one is taken; with none queued the read loop starts
DrainEvents(t) ==
    /\ caller[t].pc = "idle" /\ nEvOps < MaxEvOps
    /\ nEvOps' = nEvOps + 1
    /\ IF Queued # {}
       THEN LET c == CHOOSE d \in Queued : \A e \in Queued : d <= e IN
            /\ method_queue' = [method_queue EXCEPT ![c] = Tail(@)]
            /\ Dispatch(t, Head(method_queue[c]))
       ELSE /\ caller' = [caller EXCEPT ![t] = [Resting EXCEPT !.pc = "dread",
                                                               !.op = "drain_events"]]
            /\ UNCHANGED <<method_queue, callbacks, cancel_callbacks, no_ack_consumers,
                           returned_messages, chlock, toPeer, peer, calls, dispatched,
                           taken>>
    /\ UNCHANGED <<fromPeer, rcvd>>
    /\ UNCHANGED offEvents

\* drain_events, _wait_multiple read loop: any method of a known channel is
\* returned and dispatched
DrainRead(t) ==
    /\ caller[t].pc = "dread" /\ fromPeer # <<>>
    /\ fromPeer' = Tail(fromPeer)
    /\ rcvd' = Append(rcvd, Head(fromPeer))
    /\ Dispatch(t, Head(fromPeer))
    /\ UNCHANGED <<method_queue, nEvOps>>
    /\ UNCHANGED offEvents

\* --------------------------------------------------------------- broker
PeerSends(ms) ==
    fromPeer' = fromPeer \o [i \in 1..Len(ms) |-> [ms[i] EXCEPT !.n = peer.sent + i]]

\* where the broker may route a publish: to a consumer, back to the publisher
\* when it is mandatory, or to a queue nobody consumes from
Routes(m) ==
    peer.consumers \cup {<<0, "queue">>} \cup (IF m.mandatory THEN {<<0, "return">>} ELSE {})

EvBroker ==
    LET m == Head(toPeer) IN
    /\ toPeer # <<>>
    /\ toPeer' = Tail(toPeer)
    /\ \E ms \in (CASE m.ty = "basic.publish" ->
                         {IF r = <<0, "queue">> THEN <<>>
                          ELSE IF r = <<0, "return">> THEN <<EvMeth(m.ch, "basic.return", NoTag, 0)>>
                          ELSE <<EvMeth(r[1], "basic.deliver", r[2], 0)>> : r \in Routes(m)}
                    [] OTHER -> {<<EvMeth(m.ch, m.ty \o "-ok", m.tag, 0)>>}) :
          /\ PeerSends(ms)
          /\ peer' = [peer EXCEPT !.sent = @ + Len(ms),
                                  !.consumers =
                                     IF m.ty = "basic.consume" THEN @ \cup {<<m.ch, m.tag>>}
                                     ELSE IF m.ty = "basic.cancel" THEN @ \ {<<m.ch, m.tag>>}
                                     ELSE @]
    /\ UNCHANGED <<method_queue, callbacks, cancel_callbacks, no_ack_consumers,
                   returned_messages, chlock, caller, calls, rcvd, dispatched, taken,
                   nEvOps>>
    /\ UNCHANGED offEvents

\* consumer cancel notification: the broker cancels a consumer on its own
EvPeerCancels(c, g) ==
    /\ <<c, g>> \in peer.consumers /\ peer.pushes < MaxPushes
    /\ PeerSends(<<EvMeth(c, "basic.cancel", g, 0)>>)
    /\ peer' = [peer EXCEPT !.sent = @ + 1, !.pushes = @ + 1,
                            !.consumers = @ \ {<<c, g>>}]
    /\ UNCHANGED <<method_queue, callbacks, cancel_callbacks, no_ack_consumers,
                   returned_messages, chlock, caller, toPeer, calls, rcvd, dispatched,
                   taken, nEvOps>>
    /\ UNCHANGED offEvents

\* the basic_consume calls made: callback, on_cancel given, no_ack
ConsumeKinds == {<<"fn", TRUE, TRUE>>, <<"fn", FALSE, FALSE>>, <<"none", FALSE, TRUE>>}

\* operations that wait for a reply, and the broker
NextWaits ==
    \/ \E t \in Threads, c \in EvChans, mandatory \in BOOLEAN : EvPublish(t, c, mandatory)
    \/ \E t \in Threads, c \in EvChans :
          EvCall(t, c, "queue_declare", NoTag, "none", FALSE, FALSE)
    \/ \E t \in Threads, c \in EvChans, g \in Tags, a \in ConsumeKinds :
          EvCall(t, c, "basic_consume", g, a[1], a[2], a[3])
    \/ \E t \in Threads, c \in EvChans, g \in Tags :
          EvCall(t, c, "basic_cancel", g, "none", FALSE, FALSE)
    \/ \E t \in Threads : EvScanInbox(t)
    \/ \E t \in Threads : EvReadOwn(t)
    \/ \E t \in Threads : EvReadImmediate(t)
    \/ \E t \in Threads : EvReadOther(t)
    \/ EvBroker
    \/ \E c \in EvChans, g \in Tags : EvPeerCancels(c, g)

SpecWaits == Init /\ [][NextWaits]_vars

NextEvents ==
    \/ NextWaits
    \/ \E t \in Threads : DrainEvents(t)
    \/ \E t \in Threads : DrainRead(t)

SpecEvents == Init /\ [][NextEvents]_vars

\* queue_declare on any channel from any thread, with drain_events beside it
NextRpcs ==
    \/ \E t \in Threads, c \in EvChans :
          EvCall(t, c, "queue_declare", NoTag, "none", FALSE, FALSE)
    \/ \E t \in Threads : EvScanInbox(t)
    \/ \E t \in Threads : EvReadOwn(t)
    \/ \E t \in Threads : EvReadOther(t)
    \/ \E t \in Threads : DrainEvents(t)
    \/ \E t \in Threads : DrainRead(t)
    \/ EvBroker

\* a thread inside a call is scheduled again; the broker answers what it receives
ThreadStep(t) == EvScanInbox(t) \/ EvReadOwn(t) \/ EvReadOther(t) \/ DrainRead(t)

SpecRpcs == Init /\ [][NextRpcs]_vars /\ WF_vars(EvBroker) /\ \A t \in Threads : WF_vars(ThreadStep(t))

\* ================================================================ reading
\* MethodReader.read_method over Transport.read_frame: the broker's frames
\* reach the socket in three parts each (the 7 byte header, the payload, the
\* end byte), which read_frame takes with three read() calls.
PeerMethod(c, content) ==
    LET n == inPeer.methods + 1
        tys == IF content THEN <<"METHOD", "HEADER", "BODY">> ELSE <<"METHOD">>
        fs == [i \in 1..Len(tys) |-> [ty |-> tys[i], ch |-> c, n |-> n, content |-> content,
                                      end_ok |-> TRUE]]
    IN
    /\ ~inPeer.closed /\ inPeer.methods < MaxMethods
    /\ net' = net \o [i \in 1..(FrameReads * Len(fs)) |->
                         [frame |-> fs[((i - 1) \div FrameReads) + 1],
                          part |-> ((i - 1) % FrameReads) + 1]]
    /\ inPeer' = [inPeer EXCEPT !.methods = n]
    /\ UNCHANGED <<sockbuf, rframe, expected_types, partial_methods, methods_read,
                   connected, sock_timeout, reader, unexpected>>
    /\ UNCHANGED offRead

\* frames a faulty peer puts between methods: a content header nothing
\* announced, and a method frame whose end byte is not 0xCE
FaultFrames == {[ty |-> "HEADER", ch |-> c, n |-> 0, content |-> FALSE, end_ok |-> TRUE] :
                   c \in RdChans}
               \cup {[ty |-> "METHOD", ch |-> c, n |-> 0, content |-> FALSE, end_ok |-> FALSE] :
                        c \in RdChans}

PeerFault(f) ==
    /\ ~inPeer.closed /\ inPeer.faults < MaxFaults
    /\ net' = net \o [i \in 1..FrameReads |-> [frame |-> f, part |-> i]]
    /\ inPeer' = [inPeer EXCEPT !.faults = @ + 1]
    /\ UNCHANGED <<sockbuf, rframe, expected_types, partial_methods, methods_read,
                   connected, sock_timeout, reader, unexpected>>
    /\ UNCHANGED offRead

\* the peer closes its end
PeerCloses ==
    /\ ~inPeer.closed
    /\ inPeer' = [inPeer EXCEPT !.closed = TRUE]
    /\ UNCHANGED <<net, sockbuf, rframe, expected_types, partial_methods, methods_read,
                   connected, sock_timeout, reader, unexpected>>
    /\ UNCHANGED offRead

\* bytes in flight reach the socket
Arrive ==
    /\ net # <<>>
    /\ net' = Tail(net)
    /\ sockbuf' = Append(sockbuf, Head(net))
    /\ UNCHANGED <<rframe, expected_types, partial_methods, methods_read, connected,
                   sock_timeout, reader, unexpected, inPeer>>
    /\ UNCHANGED offRead

\* read_method(timeout): with a timeout the socket's timeout is set for the call
ReadMethod(timed) ==
    /\ reader.pc = "idle" /\ reader.calls < MaxReads
    /\ reader' = [pc |-> "frame", timed |-> timed, orig |-> sock_timeout, result |-> "none",
                  calls |-> reader.calls + 1]
    /\ sock_timeout' = IF timed THEN "timeout" ELSE sock_timeout
    /\ UNCHANGED <<net, sockbuf, rframe, expected_types, partial_methods, methods_read,
                   connected, inPeer, unexpected>>
    /\ UNCHANGED offRead

\* read_method returns or raises: `finally: self.sock.settimeout(orig_timeout)`;
\* what read_frame had read of a frame goes with its local variables
ReadEnds(res) ==
    /\ reader' = [reader EXCEPT !.pc = "idle", !.result = res]
    /\ sock_timeout' = IF reader.timed THEN reader.orig ELSE sock_timeout
    /\ rframe' = <<>>
    /\ unexpected' = (unexpected \/ res = "UnexpectedFrame")

\* a complete method is put on MethodReader.method_queue and _read_method pops it
Complete(n) == methods_read' = Append(methods_read, n)

\* three parts that are one whole frame
Aligned(parts) ==
    /\ parts[1].part = 1
    /\ \A i \in 1..FrameReads : parts[i] = [frame |-> parts[1].frame, part |-> i]

\* read_frame has the end byte: the end byte is checked, then _next_method
\* checks the type against the one expected for the channel and assembles
FrameRead(parts) ==
    LET f == parts[1].frame IN
    IF ~Aligned(parts) \/ ~f.end_ok \/ f.ty # expected_types[f.ch]
    THEN /\ ReadEnds("UnexpectedFrame")
         /\ UNCHANGED <<expected_types, partial_methods, methods_read>>
    ELSE IF f.ty = "METHOD" /\ ~f.content
    THEN /\ Complete(f.n)
         /\ ReadEnds("ok")
         /\ UNCHANGED <<expected_types, partial_methods>>
    ELSE IF f.ty = "BODY"
    THEN /\ Complete(partial_methods[f.ch])
         /\ ReadEnds("ok")
         /\ expected_types' = [expected_types EXCEPT ![f.ch] = "METHOD"]
         /\ partial_methods' = [partial_methods EXCEPT ![f.ch] = 0]
    ELSE /\ expected_types' = [expected_types EXCEPT ![f.ch] =
                                  IF f.ty = "METHOD" THEN "HEADER" ELSE "BODY"]
         /\ partial_methods' = [partial_methods EXCEPT ![f.ch] =
                                   IF f.ty = "METHOD" THEN f.n ELSE @]
         /\ rframe' = <<>>
         /\ UNCHANGED <<methods_read, reader, sock_timeout, unexpected>>

\* Transport._read: recv_into gets what the socket has for this read()
Recv ==
    /\ reader.pc = "frame" /\ sockbuf # <<>>
    /\ sockbuf' = Tail(sockbuf)
    /\ IF Len(rframe) + 1 < FrameReads
       THEN /\ rframe' = Append(rframe, Head(sockbuf))
            /\ UNCHANGED <<expected_types, partial_methods, methods_read, reader,
                           sock_timeout, unexpected>>
       ELSE FrameRead(Append(rframe, Head(sockbuf)))
    /\ UNCHANGED <<net, connected, inPeer>>
    /\ UNCHANGED offRead

\* recv_into raises socket.timeout: read_frame leaves connected alone and
\* re-raises, _read_method raises it, read_method turns it into Timeout
TimeoutFires ==
    /\ reader.pc = "frame" /\ reader.timed /\ sockbuf = <<>>
    /\ ReadEnds("Timeout")
    /\ UNCHANGED <<net, sockbuf, expected_types, partial_methods, methods_read, connected,
                   inPeer>>
    /\ UNCHANGED offRead

\* recv_into returns nothing: IOError('socket closed'), connected = False
ReadEof ==
    /\ reader.pc = "frame" /\ sockbuf = <<>> /\ net = <<>> /\ inPeer.closed
    /\ ReadEnds("IOError")
    /\ connected' = FALSE
    /\ UNCHANGED <<net, sockbuf, expected_types, partial_methods, methods_read, inPeer>>
    /\ UNCHANGED offRead

NextRead ==
    \/ \E c \in RdChans, content \in BOOLEAN : PeerMethod(c, content)
    \/ \E f \in FaultFrames : PeerFault(f)
    \/ PeerCloses
    \/ Arrive
    \/ \E timed \in BOOLEAN : ReadMethod(timed)
    \/ Recv
    \/ TimeoutFires
    \/ ReadEof

SpecRead == Init /\ [][NextRead]_vars

\* ================================================================ handshake
\* Connection.__init__ from the creation of the transport on, against a broker
\* that may challenge (connection.secure) up to MaxRounds times.
HsMeth(ty, cm, hb) == [ty |-> ty, channel_max |-> cm, heartbeat |-> hb]
HsPlain(ty) == HsMeth(ty, 0, 0)

\* Connection(...): the arguments are kept, the transport sends the protocol header
HsConstruct(cm, hb) ==
    /\ hs.pc = "new"
    /\ hs' = [hs EXCEPT !.pc = "wait_start", !.channel_max = cm, !.client_heartbeat = hb]
    /\ hsPeer' = [hsPeer EXCEPT !.stage = "header"]
    /\ UNCHANGED <<hsIn, hsOut, hsTrace>>
    /\ UNCHANGED offHandshake

\* wait(allowed_methods=[Start]): _start
HsStart ==
    /\ hs.pc = "wait_start" /\ hsIn # <<>> /\ Head(hsIn).ty = "connection.start"
    /\ hsIn' = Tail(hsIn)
    /\ hs' = [hs EXCEPT !.pc = "start_ok"]
    /\ hsTrace' = Append(hsTrace, "<-connection.start")
    /\ UNCHANGED <<hsOut, hsPeer>>
    /\ UNCHANGED offHandshake

\* _x_start_ok
HsStartOk ==
    /\ hs.pc = "start_ok"
    /\ hsOut' = Append(hsOut, HsPlain("connection.start-ok"))
    /\ hs' = [hs EXCEPT !.pc = "wait_tune"]
    /\ hsTrace' = Append(hsTrace, "->connection.start-ok")
    /\ UNCHANGED <<hsIn, hsPeer>>
    /\ UNCHANGED offHandshake

\* _secure: the challenge is read, nothing is sent
Secure == hsOut' = hsOut

\* while self._wait_tune_ok: wait([Secure, Tune]) -- connection.secure
HsSecure ==
    /\ hs.pc = "wait_tune" /\ hsIn # <<>> /\ Head(hsIn).ty = "connection.secure"
    /\ hsIn' = Tail(hsIn)
    /\ Secure
    /\ hsTrace' = Append(hsTrace, "<-connection.secure")
           \o (IF hsOut' = hsOut THEN <<>> ELSE <<"->connection.secure-ok">>)
    /\ UNCHANGED <<hs, hsPeer>>
    /\ UNCHANGED offHandshake

Max(a, b) == IF a > b THEN a ELSE b
Min(a, b) == IF a < b THEN a ELSE b

\* a negotiation that always takes the larger proposal
HeartbeatLarger(client, server) == Max(server, client)

\* _tune: the heartbeat negotiated from the two proposals
Heartbeat(client, server) ==
    IF client = 0 THEN 0
    ELSE IF server = 0 \/ client = 0 THEN Max(server, client)
    ELSE Min(server, client)

\* _tune: args.read_short() or self.channel_max
ChannelMax(client, server) == IF server # 0 THEN server ELSE client

\* the method that carries the heartbeat but none that was negotiated
TuneOkNoHeartbeat(cm, hb) == HsMeth("connection.tune-ok", cm, 0)

\* _x_tune_ok: write_short(channel_max), write_short(heartbeat or 0)
TuneOk(cm, hb) == HsMeth("connection.tune-ok", cm, hb)

\* while self._wait_tune_ok: wait([Secure, Tune]) -- connection.tune: _tune
\* sets the negotiated values and sends tune-ok (_x_tune_ok), which ends the loop
HsTune ==
    LET m == Head(hsIn)
        cm == ChannelMax(hs.channel_max, m.channel_max)
        hb == Heartbeat(hs.client_heartbeat, m.heartbeat)
    IN
    /\ hs.pc = "wait_tune" /\ hsIn # <<>> /\ m.ty = "connection.tune"
    /\ hsIn' = Tail(hsIn)
    /\ hs' = [hs EXCEPT !.pc = "open", !.channel_max = cm, !.server_heartbeat = m.heartbeat,
                        !.heartbeat = hb]
    /\ hsOut' = Append(hsOut, TuneOk(cm, hb))
    /\ hsTrace' = hsTrace \o <<"<-connection.tune", "->connection.tune-ok">>
    /\ UNCHANGED hsPeer
    /\ UNCHANGED offHandshake

\* _x_open up to its wait
HsOpen ==
    /\ hs.pc = "open"
    /\ hsOut' = Append(hsOut, HsPlain("connection.open"))
    /\ hs' = [hs EXCEPT !.pc = "wait_open_ok"]
    /\ hsTrace' = Append(hsTrace, "->connection.open")
    /\ UNCHANGED <<hsIn, hsPeer>>
    /\ UNCHANGED offHandshake

\* wait([OpenOk]): _open_ok; the constructor returns
HsOpenOk ==
    /\ hs.pc = "wait_open_ok" /\ hsIn # <<>> /\ Head(hsIn).ty = "connection.open-ok"
    /\ hsIn' = Tail(hsIn)
    /\ hs' = [hs EXCEPT !.pc = "done"]
    /\ hsTrace' = Append(hsTrace, "<-connection.open-ok")
    /\ UNCHANGED <<hsOut, hsPeer>>
    /\ UNCHANGED offHandshake

\* ------------------------------------------------------------- the broker
HsPeerStart ==
    /\ hsPeer.stage = "header"
    /\ hsIn' = Append(hsIn, HsPlain("connection.start"))
    /\ hsPeer' = [hsPeer EXCEPT !.stage = "auth"]
    /\ UNCHANGED <<hs, hsOut, hsTrace>>
    /\ UNCHANGED offHandshake

\* start-ok or secure-ok arrives: another challenge
HsPeerSecure ==
    /\ hsPeer.stage = "auth" /\ hsOut # <<>> /\ hsPeer.rounds < MaxRounds
    /\ Head(hsOut).ty \in {"connection.start-ok", "connection.secure-ok"}
    /\ hsOut' = Tail(hsOut)
    /\ hsIn' = Append(hsIn, HsPlain("connection.secure"))
    /\ hsPeer' = [hsPeer EXCEPT !.rounds = @ + 1]
    /\ UNCHANGED <<hs, hsTrace>>
    /\ UNCHANGED offHandshake

\* start-ok or secure-ok arrives: the broker is satisfied and proposes its limits
HsPeerTune(cm, hb) ==
    /\ hsPeer.stage = "auth" /\ hsOut # <<>>
    /\ Head(hsOut).ty \in {"connection.start-ok", "connection.secure-ok"}
    /\ hsOut' = Tail(hsOut)
    /\ hsIn' = Append(hsIn, HsMeth("connection.tune", cm, hb))
    /\ hsPeer' = [hsPeer EXCEPT !.stage = "tune"]
    /\ UNCHANGED <<hs, hsTrace>>
    /\ UNCHANGED offHandshake

HsPeerTuned ==
    /\ hsPeer.stage = "tune" /\ hsOut # <<>> /\ Head(hsOut).ty = "connection.tune-ok"
    /\ hsOut' = Tail(hsOut)
    /\ hsPeer' = [hsPeer EXCEPT !.stage = "tuned"]
    /\ UNCHANGED <<hs, hsIn, hsTrace>>
    /\ UNCHANGED offHandshake

HsPeerOpenOk ==
    /\ hsPeer.stage = "tuned" /\ hsOut # <<>> /\ Head(hsOut).ty = "connection.open"
    /\ hsOut' = Tail(hsOut)
    /\ hsIn' = Append(hsIn, HsPlain("connection.open-ok"))
    /\ hsPeer' = [hsPeer EXCEPT !.stage = "open"]
    /\ UNCHANGED <<hs, hsTrace>>
    /\ UNCHANGED offHandshake

NextHandshake ==
    \/ \E cm \in ClientChannelMax, hb \in Heartbeats : HsConstruct(cm, hb)
    \/ HsStart
    \/ HsStartOk
    \/ HsSecure
    \/ HsTune
    \/ HsOpen
    \/ HsOpenOk
    \/ HsPeerStart
    \/ HsPeerSecure
    \/ \E cm \in ServerChannelMax, hb \in Heartbeats : HsPeerTune(cm, hb)
    \/ HsPeerTuned
    \/ HsPeerOpenOk

SpecHandshake == Init /\ [][NextHandshake]_vars

\* ================================================================ publish
\* Channel.basic_publish down to the frames MethodWriter.write_method writes,
\* with the payload of every frame.  A body is a sequence of Bytes.
Bodies == UNION {[1..n -> Bytes] : n \in 0..MaxBody}

\* Frame(frame_type, channel, payload) of the n-th method published
PFrame(ty, n, payload) == [ty |-> ty, n |-> n, payload |-> payload]

\* a split that leaves out a trailing piece shorter than chunk_size
RECURSIVE PackBodyWhole(_, _)
PackBodyWhole(body, chunk_size) ==
    IF Len(body) < chunk_size THEN <<>>
    ELSE <<SubSeq(body, 1, chunk_size)>>
         \o PackBodyWhole(SubSeq(body, chunk_size + 1, Len(body)), chunk_size)

\* Method._pack_body: for i in range(0, len(body), chunk_size): body[i:i + chunk_size]
RECURSIVE PackBody(_, _)
PackBody(body, chunk_size) ==
    IF body = <<>> THEN <<>>
    ELSE LET k == IF Len(body) < chunk_size THEN Len(body) ELSE chunk_size
         IN <<SubSeq(body, 1, k)>> \o PackBody(SubSeq(body, k + 1, Len(body)), chunk_size)

\* Method.dump_body_frame
DumpBodyFrames(n, body, chunk_size) ==
    LET ps == PackBody(body, chunk_size)
    IN [k \in 1..Len(ps) |-> PFrame("BODY", n, ps[k])]

\* frames put on the queue reach the transport at once
FramesPutWritten(fs) == fs

\* frames.put(frame): what has reached the transport of the frames on the local
\* queue when building a later frame raises
FramesPut(fs) == <<>>

\* _tune: self.method_writer.frame_max = self.frame_max
PubTune(F) ==
    /\ pub.pc = "new"
    /\ pub' = [pub EXCEPT !.pc = "idle", !.frame_max = F]
    /\ UNCHANGED <<frames, sent, published>>
    /\ UNCHANGED offPublish

\* basic_publish whose arguments the writer rejects (write_shortstr of an
\* exchange or routing key longer than 255 bytes): raised before the Method exists
PubArgsRejected(body) ==
    /\ pub.pc = "idle" /\ ~pub.lock /\ Len(published) < MaxPublishes
    /\ published' = Append(published, [body |-> body, ok |-> FALSE])
    /\ pub' = [pub EXCEPT !.result = "FrameSyntaxError"]
    /\ UNCHANGED <<frames, sent>>
    /\ UNCHANGED offPublish

\* basic_publish whose message the codec rejects (a property, a value of
\* application_headers, the body's encoding): write_method has queued the method
\* frame when dump_header_frame raises
PubHeaderRejected(body) ==
    LET n == Len(published) + 1 IN
    /\ pub.pc = "idle" /\ ~pub.lock /\ Len(published) < MaxPublishes
    /\ published' = Append(published, [body |-> body, ok |-> FALSE])
    /\ sent' = sent \o FramesPut(<<PFrame("METHOD", n, <<>>)>>)
    /\ pub' = [pub EXCEPT !.result = "FrameSyntaxError"]
    /\ UNCHANGED frames
    /\ UNCHANGED offPublish

\* basic_publish: the lock is taken, write_method queues the method frame, the
\* header frame and the body frames
PubQueue(body) ==
    LET n == Len(published) + 1 IN
    /\ pub.pc = "idle" /\ ~pub.lock /\ Len(published) < MaxPublishes
    /\ published' = Append(published, [body |-> body, ok |-> TRUE])
    /\ frames' = <<PFrame("METHOD", n, <<>>), PFrame("HEADER", n, <<Len(body)>>)>>
                     \o DumpBodyFrames(n, body, pub.frame_max - 8)
    /\ pub' = [pub EXCEPT !.pc = "write", !.lock = TRUE, !.result = "-"]
    /\ UNCHANGED sent
    /\ UNCHANGED offPublish

\* while not frames.empty(): transport.write_frame(frames.get())
PubWrite ==
    /\ pub.pc = "write" /\ frames # <<>>
    /\ sent' = Append(sent, Head(frames))
    /\ frames' = Tail(frames)
    /\ UNCHANGED <<pub, published>>
    /\ UNCHANGED offPublish

\* write_method and basic_publish return; synchronized releases the lock
PubReturn ==
    /\ pub.pc = "write" /\ frames = <<>>
    /\ pub' = [pub EXCEPT !.pc = "idle", !.lock = FALSE, !.result = "ok"]
    /\ UNCHANGED <<frames, sent, published>>
    /\ UNCHANGED offPublish

NextPublish ==
    \/ \E F \in (FrameMax - 1)..(FrameMax + 1) : PubTune(F)
    \/ \E body \in Bodies : PubArgsRejected(body)
    \/ \E body \in Bodies : PubHeaderRejected(body)
    \/ \E body \in Bodies : PubQueue(body)
    \/ PubWrite
    \/ PubReturn

SpecPublish == Init /\ [][NextPublish]_vars

\* ================================================================ mode
\* tx_select and confirm_select on one open Channel, against a broker that
\* refuses to mix the two modes with 406 PRECONDITION_FAILED.
ModeOps == {"confirm_select", "tx_select"}
ModeRequest(k) == IF k = "tx_select" THEN "tx.select" ELSE "confirm.select"
ModeReply(k) == IF k = "tx_select" THEN "tx.select-ok" ELSE "confirm.select-ok"

\* the mode the Channel records when the operation has succeeded
ModeAfter(k) == IF k = "tx_select" THEN "TX" ELSE "CONFIRM"

\* a revive that keeps the mode
RevivedModeKept(m) == m

\* the mode the Channel records when it is reopened
RevivedMode(m) == "NONE"

\* tx_select / confirm_select: _send_method, then wait
ModeSelect(k) ==
    /\ mch.pc = "idle" /\ mch.is_open /\ mch.n < MaxModeOps
    /\ mOut' = Append(mOut, ModeRequest(k))
    /\ mch' = [mch EXCEPT !.pc = "wait", !.op = k, !.result = "-", !.n = @ + 1]
    /\ UNCHANGED <<mIn, mSrv>>
    /\ UNCHANGED offMode

\* wait(allowed_methods=[SelectOk]): the -ok arrives and the operation returns
ModeSelectOk ==
    /\ mch.pc = "wait" /\ mIn # <<>> /\ Head(mIn) = ModeReply(mch.op)
    /\ mIn' = Tail(mIn)
    /\ mch' = [mch EXCEPT !.pc = "idle", !.mode = ModeAfter(mch.op), !.result = "ok"]
    /\ UNCHANGED <<mOut, mSrv>>
    /\ UNCHANGED offMode

\* wait: channel.close arrives: Channel._close sends close-ok and revives
\* (_do_revive: is_open = False, _x_open sends channel.open and waits)
ModeClose ==
    /\ mch.pc = "wait" /\ mIn # <<>> /\ Head(mIn) = "channel.close"
    /\ mIn' = Tail(mIn)
    /\ mOut' = mOut \o <<"channel.close-ok", "channel.open">>
    /\ mch' = [mch EXCEPT !.pc = "revive", !.is_open = FALSE, !.mode = RevivedMode(@)]
    /\ UNCHANGED mSrv
    /\ UNCHANGED offMode

\* _open_ok; _close raises error_for_code(406, ...)
ModeOpenOk ==
    /\ mch.pc = "revive" /\ mIn # <<>> /\ Head(mIn) = "channel.open-ok"
    /\ mIn' = Tail(mIn)
    /\ mch' = [mch EXCEPT !.pc = "idle", !.is_open = TRUE, !.result = "PreconditionFailed"]
    /\ UNCHANGED <<mOut, mSrv>>
    /\ UNCHANGED offMode

\* the broker takes the next method of the channel
ModeBroker ==
    LET m == Head(mOut)
        want == IF m = "tx.select" THEN "TX" ELSE "CONFIRM"
    IN
    /\ mOut # <<>>
    /\ mOut' = Tail(mOut)
    /\ CASE m \in {"tx.select", "confirm.select"} ->
              IF mSrv.mode \in {"NONE", want}
              THEN /\ mSrv' = [mSrv EXCEPT !.mode = want]
                   /\ mIn' = Append(mIn, ModeReply(IF m = "tx.select" THEN "tx_select"
                                                           ELSE "confirm_select"))
              ELSE /\ mSrv' = mSrv
                   /\ mIn' = Append(mIn, "channel.close")
         [] m = "channel.close-ok" ->
              /\ mSrv' = [open |-> FALSE, mode |-> "NONE"]
              /\ mIn' = mIn
         [] m = "channel.open" ->
              /\ mSrv' = [open |-> TRUE, mode |-> "NONE"]
              /\ mIn' = Append(mIn, "channel.open-ok")
    /\ UNCHANGED mch
    /\ UNCHANGED offMode

NextMode ==
    \/ \E k \in ModeOps : ModeSelect(k)
    \/ ModeSelectOk
    \/ ModeClose
    \/ ModeOpenOk
    \/ ModeBroker

SpecMode == Init /\ [][NextMode]_vars

\* ================================================================ errors
\* exceptions.error_for_code.  An exception class is known by its name; Base
\* gives the class it derives from.
ERROR_MAP ==
    [c \in {311, 313, 320, 402, 403, 404, 405, 406, 501, 502, 503, 504, 505, 506, 530, 540, 541}
       |-> CASE c = 311 -> "ContentTooLarge"
             [] c = 313 -> "NoConsumers"
             [] c = 320 -> "ConnectionForced"
             [] c = 402 -> "InvalidPath"
             [] c = 403 -> "AccessRefused"
             [] c = 404 -> "NotFound"
             [] c = 405 -> "ResourceLocked"
             [] c = 406 -> "PreconditionFailed"
             [] c = 501 -> "FrameError"
             [] c = 502 -> "FrameSyntaxError"
             [] c = 503 -> "InvalidCommand"
             [] c = 504 -> "ChannelNotOpen"
             [] c = 505 -> "UnexpectedFrame"
             [] c = 506 -> "ResourceError"
             [] c = 530 -> "NotAllowed"
             [] c = 540 -> "AMQPNotImplementedError"
             [] c = 541 -> "InternalError"]

\* class X(Base)
Base(cls) ==
    CASE cls \in {"ContentTooLarge", "NoConsumers", "ResourceLocked"} -> "RecoverableChannelError"
      [] cls \in {"AccessRefused", "NotFound", "PreconditionFailed"} -> "IrrecoverableChannelError"
      [] cls \in {"ConnectionForced", "ResourceError"} -> "RecoverableConnectionError"
      [] cls \in {"InvalidPath", "FrameError", "FrameSyntaxError", "InvalidCommand",
                  "ChannelNotOpen", "UnexpectedFrame", "NotAllowed", "AMQPNotImplementedError",
                  "InternalError"} -> "IrrecoverableConnectionError"
      [] cls \in {"RecoverableChannelError", "IrrecoverableChannelError"} -> "ChannelError"
      [] cls \in {"RecoverableConnectionError", "IrrecoverableConnectionError"} ->
             "AMQPConnectionError"
      [] OTHER -> "AMQPError"

\* the class attribute code
ClassCode(cls) ==
    IF \E c \in DOMAIN ERROR_MAP : ERROR_MAP[c] = cls
    THEN CHOOSE c \in DOMAIN ERROR_MAP : ERROR_MAP[c] = cls
    ELSE 0

\* AMQPError.__init__
AMQPError(cls, reply_text, method_type, reply_code, channel_id) ==
    [cls |-> cls,
     reply_code |-> IF reply_code # 0 THEN reply_code ELSE ClassCode(cls),
     reply_text |-> reply_text, method_type |-> method_type, channel_id |-> channel_id]

\* error_for_code(code, text, meth_type, default, channel_id)
error_for_code(code, text, meth_type, default, channel_id) ==
    IF code \in DOMAIN ERROR_MAP
    THEN AMQPError(ERROR_MAP[code], text, meth_type, code, channel_id)
    ELSE AMQPError(default, text, meth_type, code, channel_id)

\* reply codes: those of ERROR_MAP and some it does not know
Codes == DOMAIN ERROR_MAP \cup {0, 200, 312, 599}
\* the defaults the callers pass: Channel._close, Connection._close
Defaults == {"ChannelError", "AMQPConnectionError"}
Texts == {"NOT_FOUND", ""}
MethodTypes == {<<60, 40>>, <<0, 0>>}

\* a handler of channel.close or connection.close calls error_for_code
ErrCall(code, text, meth_type, default, channel_id) ==
    /\ ec.pc \in {"idle", "done"}
    /\ ec' = [pc |-> "called", code |-> code, text |-> text, meth_type |-> meth_type,
              default |-> default, channel_id |-> channel_id]
    /\ UNCHANGED offError

\* error_for_code returns the exception object
ErrReturn ==
    /\ ec.pc = "called"
    /\ ec' = [ec EXCEPT !.pc = "done"]
              @@ [exc |-> error_for_code(ec.code, ec.text, ec.meth_type, ec.default,
                                         ec.channel_id)]
    /\ UNCHANGED offError

NextError ==
    \/ \E code \in Codes, text \in Texts, mt \in MethodTypes, d \in Defaults, c \in 0..MaxChannels :
          ErrCall(code, text, mt, d, c)
    \/ ErrReturn

SpecError == Init /\ [][NextError]_vars

\* ================================================================ is_alive
\* Connection.is_alive and Transport.is_alive on a connection that may have been
\* closed, may have met an I/O error, a channel error or a connection error,
\* and whose peer may have gone away unnoticed.

\* Frame(FrameType.HEARTBEAT): channel 0, empty payload
HeartbeatFrame == [ty |-> "HEARTBEAT", ch |-> 0, payload |-> <<>>]

\* Connection.close() completed, or connection.close received (Connection._close,
\* _x_close_ok): _do_close closes the transport and forgets it
AlShutdown(why) ==
    /\ al.transport /\ al.n < MaxAlive
    /\ al' = [al EXCEPT !.transport = FALSE, !.sock = FALSE, !.connected = FALSE,
                        !.last = why, !.n = @ + 1]
    /\ UNCHANGED probes
    /\ UNCHANGED offAlive

\* read_frame or write_frame meets an error outside _UNAVAIL: connected = False
AlIoError ==
    /\ al.sock /\ al.connected /\ al.n < MaxAlive
    /\ al' = [al EXCEPT !.connected = FALSE, !.last = "io error", !.n = @ + 1]
    /\ UNCHANGED probes
    /\ UNCHANGED offAlive

\* an operation raises a channel error: Channel._close answers and revives
AlChannelError ==
    /\ al.transport /\ al.sock /\ al.connected /\ al.peer = "open" /\ al.n < MaxAlive
    /\ al' = [al EXCEPT !.last = "channel error", !.n = @ + 1]
    /\ UNCHANGED probes
    /\ UNCHANGED offAlive

\* the peer's end of the socket: it goes away, or data arrives from it
AlPeer(gone) ==
    /\ al.peer = "open" /\ al.n < MaxAlive
    /\ al' = [al EXCEPT !.peer = IF gone THEN "closed" ELSE @,
                        !.pending = IF gone THEN @ ELSE TRUE, !.last = "peer", !.n = @ + 1]
    /\ UNCHANGED probes
    /\ UNCHANGED offAlive

\* Transport.is_alive; written says whether the write of the heartbeat succeeds
TransportIsAlive(written) ==
    /\ al.n < MaxAlive
    /\ IF ~al.sock \/ ~al.connected
       THEN /\ al' = [al EXCEPT !.last = "Transport.is_alive", !.result = "False", !.n = @ + 1]
            /\ UNCHANGED probes
       ELSE IF written
       THEN /\ probes' = Append(probes, HeartbeatFrame)
            /\ al' = [al EXCEPT !.last = "Transport.is_alive", !.result = "True", !.n = @ + 1]
       ELSE /\ al' = [al EXCEPT !.last = "Transport.is_alive", !.result = "False",
                               !.connected = FALSE, !.n = @ + 1]
            /\ UNCHANGED probes
    /\ UNCHANGED offAlive

\* Connection.is_alive: sock = self.sock; sock.recv(1, socket.MSG_PEEK) under a
\* short timeout; reset says whether the recv on a dead socket raises
ConnectionIsAlive(reset) ==
    /\ al.n < MaxAlive
    /\ al' = [al EXCEPT !.last = "Connection.is_alive", !.n = @ + 1,
                        !.result = IF ~al.transport \/ ~al.sock THEN "AttributeError"
                                   ELSE IF al.peer = "closed" /\ ~al.pending /\ reset
                                   THEN "False"
                                   ELSE "True"]
    /\ UNCHANGED probes
    /\ UNCHANGED offAlive

NextAlive ==
    \/ \E why \in {"close", "connection error"} : AlShutdown(why)
    \/ AlIoError
    \/ AlChannelError
    \/ \E gone \in BOOLEAN : AlPeer(gone)
    \/ \E written \in BOOLEAN : TransportIsAlive(written)
    \/ \E reset \in BOOLEAN : ConnectionIsAlive(reset)

SpecAlive == Init /\ [][NextAlive]_vars

\* ================================================================ blocked
\* connection.blocked and connection.unblocked (channel 0) reaching a client
\* that runs RPCs on Channel 1 or drains events.
BkMeth(c, ty, n) == [ch |-> c, ty |-> ty, n |-> n]
Notices == {"connection.blocked", "connection.unblocked"}

\* handlers that never call the user
NotifyNobody(ty, during) == <<>>

\* Connection._blocked / _unblocked: the user's callback, if there is one
Notify(ty, during) ==
    IF ty = "connection.blocked" /\ bk.on_blocked
    THEN <<[cb |-> "on_blocked", arg |-> "reason", during |-> during]>>
    ELSE IF ty = "connection.unblocked" /\ bk.on_unblocked
    THEN <<[cb |-> "on_unblocked", arg |-> "-", during |-> during]>>
    ELSE <<>>

\* Connection(on_blocked=..., on_unblocked=...)
BkConstruct(ob, ou) ==
    /\ bk.pc = "new"
    /\ bk' = [bk EXCEPT !.pc = "idle", !.on_blocked = ob, !.on_unblocked = ou]
    /\ UNCHANGED <<bkIn, bkQ, bkCalls, bkPeer>>
    /\ UNCHANGED offBlocked

\* a synchronous operation on the Channel: _send_method, then wait finds nothing
\* allowed in the method queue and starts reading
BkCall ==
    /\ bk.pc = "idle" /\ bk.n < MaxRpcs
    /\ bk' = [bk EXCEPT !.pc = "read", !.n = @ + 1, !.result = 0]
    /\ bkPeer' = [bkPeer EXCEPT !.owes = Append(@, bk.n + 1)]
    /\ UNCHANGED <<bkIn, bkQ, bkCalls>>
    /\ UNCHANGED offBlocked

\* _wait_method: the method read is the reply waited for
BkReadOwn ==
    /\ bk.pc = "read" /\ bkIn # <<>> /\ Head(bkIn).ch = 1
    /\ bkIn' = Tail(bkIn)
    /\ bk' = [bk EXCEPT !.pc = "idle", !.result = Head(bkIn).n]
    /\ UNCHANGED <<bkQ, bkCalls, bkPeer>>
    /\ UNCHANGED offBlocked

\* _wait_method: a method for channel 0 is queued for the Connection and
\* self.connection.wait() handles the first method of that queue; the loop goes on
BkReadConnection ==
    LET q == Append(bkQ[0], Head(bkIn)) IN
    /\ bk.pc = "read" /\ bkIn # <<>> /\ Head(bkIn).ch = 0
    /\ bkIn' = Tail(bkIn)
    /\ bkQ' = [bkQ EXCEPT ![0] = Tail(q)]
    /\ bkCalls' = bkCalls \o Notify(Head(q).ty, "rpc")
    /\ UNCHANGED <<bk, bkPeer>>
    /\ UNCHANGED offBlocked

\* drain_events: _wait_multiple returns the notice, its handler is called
BkDrain ==
    /\ bk.pc = "idle" /\ bkIn # <<>> /\ Head(bkIn).ch = 0
    /\ bkIn' = Tail(bkIn)
    /\ bkCalls' = bkCalls \o Notify(Head(bkIn).ty, "drain_events")
    /\ UNCHANGED <<bk, bkQ, bkPeer>>
    /\ UNCHANGED offBlocked

\* the broker blocks or unblocks the connection
BkPeerNotice(ty) ==
    /\ bk.pc # "new" /\ bkPeer.notices < MaxNotices
    /\ bkIn' = Append(bkIn, BkMeth(0, ty, 0))
    /\ bkPeer' = [bkPeer EXCEPT !.notices = @ + 1]
    /\ UNCHANGED <<bk, bkQ, bkCalls>>
    /\ UNCHANGED offBlocked

\* the broker answers the oldest request
BkPeerReply ==
    /\ bkPeer.owes # <<>>
    /\ bkIn' = Append(bkIn, BkMeth(1, "reply", Head(bkPeer.owes)))
    /\ bkPeer' = [bkPeer EXCEPT !.owes = Tail(@)]
    /\ UNCHANGED <<bk, bkQ, bkCalls>>
    /\ UNCHANGED offBlocked

NextBlocked ==
    \/ \E ob \in BOOLEAN, ou \in BOOLEAN : BkConstruct(ob, ou)
    \/ BkCall
    \/ BkReadOwn
    \/ BkReadConnection
    \/ BkDrain
    \/ \E ty \in Notices : BkPeerNotice(ty)
    \/ BkPeerReply

SpecBlocked == Init /\ [][NextBlocked]_vars

\* ================================================================ codec
\* serialization.AMQPWriter and AMQPReader on byte strings.  A string is the
\* sequence of its bytes; an item of a table or an array is a record with its
\* Python type in t.
RECURSIVE BE(_, _)
\* struct.pack big-endian, unsigned, w bytes
BE(n, w) == IF w = 0 THEN <<>> ELSE BE(n \div 256, w - 1) \o <<n % 256>>

\* struct.pack('>i', n): two's complement
PackInt(n) == IF n >= 0 THEN BE(n, 4) ELSE [i \in 1..4 |-> 255 - BE(0 - n - 1, 4)[i]]

RECURSIVE FromBE(_)
FromBE(bs) == IF bs = <<>> THEN 0 ELSE FromBE(SubSeq(bs, 1, Len(bs) - 1)) * 256 + bs[Len(bs)]

\* struct.unpack('>i', bs)
UnpackInt(bs) ==
    IF bs[1] < 128 THEN FromBE(bs) ELSE 0 - FromBE([i \in 1..4 |-> 255 - bs[i]]) - 1

RECURSIVE Pow2(_)
Pow2(k) == IF k = 0 THEN 1 ELSE 2 * Pow2(k - 1)

\* Decimal.as_tuple(): the integer its digits spell
RECURSIVE DigitsValue(_)
DigitsValue(ds) == IF ds = <<>> THEN 0 ELSE DigitsValue(SubSeq(ds, 1, Len(ds) - 1)) * 10 + ds[Len(ds)]

\* ------------------------------------------------------------- AMQPWriter
NewWriter == [out |-> <<>>, bits |-> <<>>, bit_count |-> 0]

\* _flush_bits
FlushBits(w) == [out |-> w.out \o w.bits, bits |-> <<>>, bit_count |-> 0]

\* getvalue
GetValue(w) == FlushBits(w).out

\* write: _flush_bits, out.write(b)
Write(w, b) == [FlushBits(w) EXCEPT !.out = @ \o b]

\* write_bit
WriteBit(w, b) ==
    LET shift == w.bit_count % 8
        bits == IF shift = 0 THEN Append(w.bits, 0) ELSE w.bits
    IN [w EXCEPT !.bits = [bits EXCEPT ![Len(bits)] = @ + (IF b THEN Pow2(shift) ELSE 0)],
                 !.bit_count = @ + 1]

RECURSIVE ItemBytes(_), ItemsBytes(_), PairsBytes(_)
\* write_item on a writer without pending bits: the bytes it adds
ItemBytes(v) ==
    CASE v.t \in {"str", "bytes"} -> <<83>> \o BE(Len(v.s), 4) \o v.s
      [] v.t = "bool" -> <<116, IF v.v THEN 1 ELSE 0>>
      [] v.t = "int" -> <<73>> \o PackInt(v.v)
      [] v.t = "decimal" ->
            <<68, 0 - v.exponent>>
            \o PackInt(IF v.sign = 1 THEN 0 - DigitsValue(v.digits) ELSE DigitsValue(v.digits))
      [] v.t = "void" -> <<86>>
      [] v.t = "table" -> LET d == PairsBytes(v.kv) IN <<70>> \o BE(Len(d), 4) \o d
      [] v.t = "array" -> LET d == ItemsBytes(v.items) IN <<65>> \o BE(Len(d), 4) \o d

\* write_array: array_data
ItemsBytes(a) == IF a = <<>> THEN <<>> ELSE ItemBytes(Head(a)) \o ItemsBytes(Tail(a))

\* write_table: table_data
PairsBytes(kv) ==
    IF kv = <<>> THEN <<>>
    ELSE <<Len(Head(kv)[1])>> \o Head(kv)[1] \o ItemBytes(Head(kv)[2]) \o PairsBytes(Tail(kv))

\* write_bit, write_octet, write_short, write_long, write_longlong, write_shortstr,
\* write_longstr, write_table, write_array
WriteField(w, f) ==
    CASE f.t = "bit" -> WriteBit(w, f.v)
      [] f.t = "octet" -> Write(w, BE(f.v, 1))
      [] f.t = "short" -> Write(w, BE(f.v, 2))
      [] f.t = "long" -> Write(w, BE(f.v, 4))
      [] f.t = "longlong" -> Write(w, BE(f.v, 8))
      [] f.t = "shortstr" -> Write(w, <<Len(f.s)>> \o f.s)
      [] f.t = "longstr" -> Write(w, BE(Len(f.s), 4) \o f.s)
      [] f.t = "table" -> LET d == PairsBytes(f.kv) IN Write(w, BE(Len(d), 4) \o d)
      [] f.t = "array" -> LET d == ItemsBytes(f.items) IN Write(w, BE(Len(d), 4) \o d)

\* ------------------------------------------------------------- AMQPReader
NewReader(source) == [input |-> source, pos |-> 0, bits |-> 0, bit_count |-> 0]

\* what a read_* call gives: a value and the reader after it, or an error
Got(val, r) == [ok |-> TRUE, val |-> val, r |-> r]
Failed(r) == [ok |-> FALSE, val |-> "error", r |-> r]

\* self.input.read(n) gives n bytes
Has(r, n) == r.pos + n <= Len(r.input)
Raw(r, n) == SubSeq(r.input, r.pos + 1, r.pos + n)
Skip(r, n) == [r EXCEPT !.pos = @ + n]

\* self.bit_count = self.bits = 0
ResetBits(r) == [r EXCEPT !.bits = 0, !.bit_count = 0]

\* read_bit
ReadBit(r) ==
    IF r.bit_count = 0 /\ ~Has(r, 1) THEN Failed(r)
    ELSE LET r1 == IF r.bit_count = 0
                   THEN [Skip(r, 1) EXCEPT !.bits = Raw(r, 1)[1], !.bit_count = 8]
                   ELSE r
         IN Got(r1.bits % 2 = 1, [r1 EXCEPT !.bits = @ \div 2, !.bit_count = @ - 1])

\* read_octet, read_short, read_long, read_longlong
ReadUnsigned(r, w) ==
    IF ~Has(r, w) THEN Failed(r) ELSE Got(FromBE(Raw(r, w)), Skip(ResetBits(r), w))

\* read_shortstr (w = 1), read_longstr (w = 4): length, bytes, decode('utf-8')
ReadStr(r, w) ==
    IF ~Has(r, w) THEN Failed(r)
    ELSE LET n == FromBE(Raw(r, w))
             r1 == Skip(ResetBits(r), w)
         IN IF ~Has(r1, n) THEN Failed(r1) ELSE Got(Raw(r1, n), Skip(r1, n))

RECURSIVE ReadItem(_), ReadItems(_, _), ReadPairs(_, _)
\* read_table: a reader of its own for the table's bytes
ReadTable(r) ==
    IF ~Has(r, 4) THEN Failed(r)
    ELSE LET n == FromBE(Raw(r, 4))
             r1 == Skip(ResetBits(r), 4)
         IN IF ~Has(r1, n) THEN Failed(r1)
            ELSE LET inner == ReadPairs(NewReader(Raw(r1, n)), <<>>)
                 IN IF inner.ok THEN Got(inner.val, Skip(r1, n)) ELSE Failed(r1)

\* read_array: a reader of its own for the array's bytes
ReadArray(r) ==
    IF ~Has(r, 4) THEN Failed(r)
    ELSE LET n == FromBE(Raw(r, 4))
             r1 == Skip(r, 4)
         IN IF ~Has(r1, n) THEN Failed(r1)
            ELSE LET inner == ReadItems(NewReader(Raw(r1, n)), <<>>)
                 IN IF inner.ok THEN Got(inner.val, Skip(r1, n)) ELSE Failed(r1)

\* read_item
ReadItem(r) ==
    IF ~Has(r, 1) THEN Failed(r)
    ELSE LET ftype == Raw(r, 1)[1]
             r1 == Skip(r, 1)
         IN CASE ftype = 83 ->
                   LET x == ReadStr(r1, 4)
                   IN IF x.ok THEN Got([t |-> "str", s |-> x.val], x.r) ELSE x
              [] ftype = 116 ->
                   LET x == ReadBit(r1)
                   IN IF x.ok THEN Got([t |-> "bool", v |-> x.val], x.r) ELSE x
              [] ftype = 73 ->
                   IF ~Has(r1, 4) THEN Failed(r1)
                   ELSE Got([t |-> "int", v |-> UnpackInt(Raw(r1, 4))], Skip(r1, 4))
              [] ftype = 68 ->
                   LET d == ReadUnsigned(r1, 1)
                   IN IF ~d.ok \/ ~Has(d.r, 4) THEN Failed(r1)
                      ELSE Got([t |-> "decimal", n |-> UnpackInt(Raw(d.r, 4)), d |-> d.val],
                               Skip(d.r, 4))
              [] ftype = 70 ->
                   LET x == ReadTable(r1)
                   IN IF x.ok THEN Got([t |-> "table", kv |-> x.val], x.r) ELSE x
              [] ftype = 65 ->
                   LET x == ReadArray(r1)
                   IN IF x.ok THEN Got([t |-> "array", items |-> x.val], x.r) ELSE x
              [] ftype = 86 -> Got([t |-> "void"], r1)
              [] OTHER -> Failed(r1)

\* read_array: while array_data.input.tell() < array_length
ReadItems(r, acc) ==
    IF r.pos >= Len(r.input) THEN Got(acc, r)
    ELSE LET x == ReadItem(r)
         IN IF x.ok THEN ReadItems(x.r, Append(acc, x.val)) ELSE x

\* read_table: while table_data.input.tell() < tlen
ReadPairs(r, acc) ==
    IF r.pos >= Len(r.input) THEN Got(acc, r)
    ELSE LET k == ReadStr(r, 1)
         IN IF ~k.ok THEN k
            ELSE LET x == ReadItem(k.r)
                 IN IF x.ok THEN ReadPairs(x.r, Append(acc, <<k.val, x.val>>)) ELSE x

\* read_bit, read_octet, ..., read_table, read_array for a field of type ty
ReadField(r, ty) ==
    CASE ty = "bit" -> ReadBit(r)
      [] ty = "octet" -> ReadUnsigned(r, 1)
      [] ty = "short" -> ReadUnsigned(r, 2)
      [] ty = "long" -> ReadUnsigned(r, 4)
      [] ty = "longlong" -> ReadUnsigned(r, 8)
      [] ty = "shortstr" -> ReadStr(r, 1)
      [] ty = "longstr" -> ReadStr(r, 4)
      [] ty = "table" -> ReadTable(r)
      [] ty = "array" -> ReadArray(r)

\* --------------------------------------------------------------- inputs
Bit(b) == [t |-> "bit", v |-> b]
Bool(b) == [t |-> "bool", v |-> b]
Str(s) == [t |-> "str", s |-> s]
ScalarFields ==
    {Bit(TRUE), Bit(FALSE), [t |-> "octet", v |-> 0], [t |-> "octet", v |-> 255],
     [t |-> "short", v |-> 258], [t |-> "long", v |-> 16909060], [t |-> "longlong", v |-> 258],
     [t |-> "shortstr", s |-> <<>>], [t |-> "shortstr", s |-> <<97>>],
     [t |-> "longstr", s |-> <<97, 98>>]}
ScalarItems ==
    {Bool(TRUE), Bool(FALSE), [t |-> "int", v |-> 7], [t |-> "int", v |-> 0 - 2], Str(<<97>>),
     [t |-> "bytes", s |-> <<98>>], [t |-> "void"],
     [t |-> "decimal", sign |-> 1, digits |-> <<1, 5>>, exponent |-> 0 - 1]}
\* the longest array, and table, items are drawn for
MaxItems == 2
Arrays == UNION {[1..n -> ScalarItems] : n \in 0..MaxItems}
Keys == <<<<97>>, <<98>>>>
Tables == UNION {{[i \in 1..n |-> <<Keys[i], a[i]>>] : a \in [1..n -> ScalarItems]} : n \in 0..MaxItems}
NestedItems ==
    {[t |-> "array", items |-> <<[t |-> "array", items |-> <<Bool(TRUE)>>], Bool(TRUE)>>],
     [t |-> "table", kv |-> <<<<Keys[1], [t |-> "array", items |-> <<Bool(FALSE), Bool(TRUE)>>]>>>>],
     [t |-> "array", items |-> <<[t |-> "table", kv |-> <<<<Keys[1], Bool(TRUE)>>>>], Str(<<97>>)>>]}
StructFields ==
    {[t |-> "array", items |-> a] : a \in Arrays}
    \cup {[t |-> "table", kv |-> kv] : kv \in Tables}
    \cup {[t |-> "array", items |-> <<v>>] : v \in NestedItems}
    \cup {[t |-> "table", kv |-> <<<<Keys[1], v>>>>] : v \in NestedItems}
\* nine flags in a row, then an octet
NineBits == {[i \in 1..10 |-> IF i = 10 THEN [t |-> "octet", v |-> 255] ELSE Bit(i \in S)]
               : S \in {{1, 9}, {2, 8}, {9}}}
FieldLists ==
    UNION {[1..n -> ScalarFields] : n \in 1..3}
    \cup NineBits
    \cup {<<f>> : f \in StructFields}
    \cup {<<b, f, c>> : b \in {Bit(TRUE)}, f \in StructFields, c \in {Bit(TRUE), Bit(FALSE)}}

\* --------------------------------------------------------------- actions
\* a method's arguments are about to be written: AMQPWriter()
CxStart(fs) ==
    /\ cx.pc = "idle"
    /\ cx' = [pc |-> "write", fields |-> fs, i |-> 0, w |-> NewWriter]
    /\ UNCHANGED offCodec

\* the next write_* call
CxWrite ==
    /\ cx.pc = "write" /\ cx.i < Len(cx.fields)
    /\ cx' = [cx EXCEPT !.i = @ + 1, !.w = WriteField(@, cx.fields[cx.i + 1])]
    /\ UNCHANGED offCodec

\* getvalue(); the bytes travel; AMQPReader(bytes)
CxGetValue ==
    /\ cx.pc = "write" /\ cx.i = Len(cx.fields)
    /\ cx' = [pc |-> "read", fields |-> cx.fields, data |-> GetValue(cx.w),
              r |-> NewReader(GetValue(cx.w)), vals |-> <<>>]
    /\ UNCHANGED offCodec

\* the next read_* call
CxRead ==
    LET x == ReadField(cx.r, cx.fields[Len(cx.vals) + 1].t) IN
    /\ cx.pc = "read" /\ Len(cx.vals) < Len(cx.fields)
    /\ cx' = IF x.ok
             THEN [cx EXCEPT !.r = x.r, !.vals = Append(@, x.val)]
             ELSE [pc |-> "done", fields |-> cx.fields, ok |-> FALSE, vals |-> cx.vals]
    /\ UNCHANGED offCodec

\* every field has been read
CxDone ==
    /\ cx.pc = "read" /\ Len(cx.vals) = Len(cx.fields)
    /\ cx' = [pc |-> "done", fields |-> cx.fields, ok |-> TRUE, vals |-> cx.vals]
    /\ UNCHANGED offCodec

NextCodec ==
    \/ \E fs \in FieldLists : CxStart(fs)
    \/ CxWrite
    \/ CxGetValue
    \/ CxRead
    \/ CxDone

SpecCodec == Init /\ [][NextCodec]_vars

\* ============================================================== confirm
\* basic_publish_confirm and the operations it calls, each wrapped by
\* synchronized('lock') on the Channel's threading.Lock
CfFrame(f, at) == [f |-> f, pc |-> at]
CfTop(t) == cfThr[t][Len(cfThr[t])]
CfAt(t, f, at) == cfThr[t] # <<>> /\ CfTop(t).f = f /\ CfTop(t).pc = at
CfGoto(t, at) == [cfThr EXCEPT ![t][Len(cfThr[t])].pc = at]
CfPush(thr, t, f) == [thr EXCEPT ![t] = Append(@, CfFrame(f, "acquire"))]
CfPop(t) == [cfThr EXCEPT ![t] = SubSeq(@, 1, Len(@) - 1)]

\* threading.Lock.acquire() returns: the lock is held by nobody
LockFree(t) == cf.lock = 0

\* self.basic_publish: the instance attribute set by Channel.__init__ when the
\* connection has confirm_publish, else the method of the class
BasicPublishAttr == IF cf.confirm_publish THEN "basic_publish_confirm" ELSE "basic_publish"

\* the allowed_methods of the wait a call is in
CfAllowed(f) == IF f = "confirm_select" THEN {"confirm.select-ok"} ELSE {"basic.ack"}

\* Connection(confirm_publish=...), Channel.__init__
CfConstruct(cp) ==
    /\ cf.pc = "new"
    /\ cf' = [cf EXCEPT !.pc = "open", !.confirm_publish = cp]
    /\ UNCHANGED <<cfThr, cfOut, cfIn, cfQ, cfSrv>>
    /\ UNCHANGED offConfirm

\* the application calls ch.confirm_select(), ch.basic_publish(msg) or
\* ch.basic_publish_confirm(msg)
CfCall(t, k) ==
    /\ cf.pc = "open" /\ cfThr[t] = <<>> /\ cf.n < MaxConfirmCalls
    /\ cf' = [cf EXCEPT !.n = @ + 1]
    /\ cfThr' = CfPush(cfThr, t, IF k = "basic_publish" THEN BasicPublishAttr ELSE k)
    /\ UNCHANGED <<cfOut, cfIn, cfQ, cfSrv>>
    /\ UNCHANGED offConfirm

\* synchronized: lock.acquire(False), and lock.acquire() when that fails
CfAcquire(t) ==
    /\ cfThr[t] # <<>> /\ CfTop(t).pc = "acquire"
    /\ LockFree(t)
    /\ cf' = [cf EXCEPT !.lock = t]
    /\ cfThr' = CfGoto(t, "body")
    /\ UNCHANGED <<cfOut, cfIn, cfQ, cfSrv>>
    /\ UNCHANGED offConfirm

\* synchronized: `finally: lock.release()`, and the call returns
CfReturn(t) == /\ cf' = [cf EXCEPT !.lock = 0] /\ cfThr' = CfPop(t)

\* confirm_select: _send_method(confirm.select), then wait
CfSelect(t) ==
    /\ CfAt(t, "confirm_select", "body")
    /\ cfOut' = Append(cfOut, "confirm.select")
    /\ cfThr' = CfGoto(t, "wait")
    /\ UNCHANGED <<cf, cfIn, cfQ, cfSrv>>
    /\ UNCHANGED offConfirm

\* basic_publish: _send_method(basic.publish), return
CfPublish(t) ==
    /\ CfAt(t, "basic_publish", "body")
    /\ cfOut' = Append(cfOut, "basic.publish")
    /\ CfReturn(t)
    /\ UNCHANGED <<cfIn, cfQ, cfSrv>>
    /\ UNCHANGED offConfirm

\* basic_publish_confirm: the next call it makes: self.confirm_select() the
\* first time, then self.basic_publish(...), then self.wait([Basic.Ack])
CfConfirm(t) ==
    /\ cfThr[t] # <<>> /\ CfTop(t).f = "basic_publish_confirm"
    /\ CfTop(t).pc \in {"body", "published"}
    /\ IF CfTop(t).pc = "published"
       THEN cfThr' = CfGoto(t, "wait") /\ cf' = cf
       ELSE IF ~cf.confirm_selected
       THEN /\ cf' = [cf EXCEPT !.confirm_selected = TRUE]
            /\ cfThr' = CfPush(cfThr, t, "confirm_select")
       ELSE /\ cf' = cf
            /\ cfThr' = CfPush(CfGoto(t, "published"), t, BasicPublishAttr)
    /\ UNCHANGED <<cfOut, cfIn, cfQ, cfSrv>>
    /\ UNCHANGED offConfirm

\* wait: the first allowed method of the method_queue, else the next method
\* read, which is returned if allowed and queued if not
CfWait(t) ==
    LET A == CfAllowed(CfTop(t).f)
        hits == {i \in 1..Len(cfQ) : cfQ[i] \in A}
    IN
    /\ cfThr[t] # <<>> /\ CfTop(t).pc = "wait"
    /\ IF hits # {}
       THEN /\ cfQ' = RemoveAt(cfQ, CHOOSE i \in hits : \A j \in hits : i <= j)
            /\ cfIn' = cfIn
            /\ CfReturn(t)
       ELSE /\ cfIn # <<>>
            /\ cfIn' = Tail(cfIn)
            /\ IF Head(cfIn) \in A
               THEN cfQ' = cfQ /\ CfReturn(t)
               ELSE cfQ' = Append(cfQ, Head(cfIn)) /\ UNCHANGED <<cf, cfThr>>
    /\ UNCHANGED <<cfOut, cfSrv>>
    /\ UNCHANGED offConfirm

\* the broker: confirm.select-ok, and basic.ack for a publish in confirm mode
CfBroker ==
    /\ cfOut # <<>>
    /\ cfOut' = Tail(cfOut)
    /\ cfIn' = IF Head(cfOut) = "confirm.select" THEN Append(cfIn, "confirm.select-ok")
               ELSE IF cfSrv.confirm THEN Append(cfIn, "basic.ack")
               ELSE cfIn
    /\ cfSrv' = IF Head(cfOut) = "confirm.select" THEN [confirm |-> TRUE] ELSE cfSrv
    /\ UNCHANGED <<cf, cfThr, cfQ>>
    /\ UNCHANGED offConfirm

CfStep(t) == CfAcquire(t) \/ CfSelect(t) \/ CfPublish(t) \/ CfConfirm(t) \/ CfWait(t)

NextConfirm ==
    \/ \E cp \in BOOLEAN : CfConstruct(cp)
    \/ \E t \in Threads, k \in {"confirm_select", "basic_publish", "basic_publish_confirm"} :
          CfCall(t, k)
    \/ \E t \in Threads : CfAcquire(t)
    \/ \E t \in Threads : CfSelect(t)
    \/ \E t \in Threads : CfPublish(t)
    \/ \E t \in Threads : CfConfirm(t)
    \/ \E t \in Threads : CfWait(t)
    \/ CfBroker

\* a thread inside a call is scheduled again; the broker answers what it receives
SpecConfirm ==
    Init /\ [][NextConfirm]_vars /\ WF_vars(CfBroker) /\ \A t \in Threads : WF_vars(CfStep(t))

\* ================================================================== get
\* Channel.basic_get on a Channel in confirm mode.  A method type is the pair
\* (class-id, method-id).
\* spec.Basic
BasicPublish == <<60, 40>>
BasicGet == <<60, 70>>
BasicGetOk == <<60, 71>>
BasicGetEmpty == <<60, 80>>
BasicAck == <<60, 80>>
\* spec.Channel.Close
ChannelCloseType == <<20, 40>>
\* basic.get-empty as the broker sends it, and as METHOD_NAME_MAP names it
WireGetEmpty == <<60, 72>>

BgMeth(ty, msg) == [ty |-> ty, msg |-> msg]

\* basic_get: allowed_methods, with Channel.Close put in front by _wait_method
GetAllowed == {ChannelCloseType, BasicGetOk, BasicGetEmpty}

\* Channel.METHOD_MAP: the value the handler of a method returns
\* (_basic_get_ok: the message; the handler under (60, 80): None)
BgHandle(m) == IF m.ty = BasicGetOk THEN m.msg ELSE "None"

\* basic_get: _send_method(basic.get), then wait
BgGet ==
    /\ bg.pc = "idle" /\ bg.gets < MaxGets
    /\ bgOut' = Append(bgOut, BasicGet)
    /\ bg' = [bg EXCEPT !.pc = "scan", !.result = "-", !.gets = @ + 1]
    /\ bgPeer' = [bgPeer EXCEPT !.answer = "-"]
    /\ UNCHANGED <<bgIn, bgQ>>
    /\ UNCHANGED offGet

\* basic_publish: _send_method(basic.publish), no wait
BgPublish ==
    /\ bg.pc = "idle" /\ ~bg.published
    /\ bgOut' = Append(bgOut, BasicPublish)
    /\ bg' = [bg EXCEPT !.published = TRUE]
    /\ UNCHANGED <<bgIn, bgQ, bgPeer>>
    /\ UNCHANGED offGet

\* _wait_method, before its loop: the first allowed method of the method_queue
BgScan ==
    LET hits == {i \in 1..Len(bgQ) : bgQ[i].ty \in GetAllowed} IN
    /\ bg.pc = "scan"
    /\ IF hits = {}
       THEN bg' = [bg EXCEPT !.pc = "read"] /\ bgQ' = bgQ
       ELSE LET i == CHOOSE j \in hits : \A h \in hits : j <= h IN
            /\ bgQ' = RemoveAt(bgQ, i)
            /\ bg' = [bg EXCEPT !.pc = "idle", !.result = BgHandle(bgQ[i])]
    /\ UNCHANGED <<bgOut, bgIn, bgPeer>>
    /\ UNCHANGED offGet

\* _wait_method, the loop: the method read is returned if allowed, else queued
BgRead ==
    /\ bg.pc = "read" /\ bgIn # <<>>
    /\ bgIn' = Tail(bgIn)
    /\ IF Head(bgIn).ty \in GetAllowed
       THEN bg' = [bg EXCEPT !.pc = "idle", !.result = BgHandle(Head(bgIn))] /\ bgQ' = bgQ
       ELSE bg' = bg /\ bgQ' = Append(bgQ, Head(bgIn))
    /\ UNCHANGED <<bgOut, bgPeer>>
    /\ UNCHANGED offGet

\* another client publishes to the queue
BgPeerEnqueue ==
    /\ bgPeer.enqueued < MaxMessages
    /\ bgPeer' = [bgPeer EXCEPT !.messages = @ + 1, !.enqueued = @ + 1]
    /\ UNCHANGED <<bg, bgOut, bgIn, bgQ>>
    /\ UNCHANGED offGet

\* the broker: basic.ack for a publish; for a get, get-ok with a message or
\* get-empty
BgBroker ==
    /\ bgOut # <<>>
    /\ bgOut' = Tail(bgOut)
    /\ IF Head(bgOut) = BasicPublish
       THEN bgIn' = Append(bgIn, BgMeth(BasicAck, "-")) /\ bgPeer' = bgPeer
       ELSE IF bgPeer.messages > 0
       THEN /\ bgIn' = Append(bgIn, BgMeth(BasicGetOk, "message"))
            /\ bgPeer' = [bgPeer EXCEPT !.messages = @ - 1, !.answer = "ok"]
       ELSE /\ bgIn' = Append(bgIn, BgMeth(WireGetEmpty, "-"))
            /\ bgPeer' = [bgPeer EXCEPT !.answer = "empty"]
    /\ UNCHANGED <<bg, bgQ>>
    /\ UNCHANGED offGet

NextGet ==
    \/ BgGet
    \/ BgPublish
    \/ BgScan
    \/ BgRead
    \/ BgPeerEnqueue
    \/ BgBroker

\* the thread inside basic_get is scheduled again; the broker answers
SpecGet == Init /\ [][NextGet]_vars /\ WF_vars(BgScan \/ BgRead) /\ WF_vars(BgBroker)

\* ================================================================ order
\* requests and replies on one Channel.  Each request carries its serial n, and
\* the reply the broker generates for it carries the same serial in re.
OrderOps == {"queue_declare", "queue_unbind", "basic_recover"}

OdRequest(k) ==
    CASE k = "queue_declare" -> "queue.declare"
      [] k = "queue_unbind" -> "queue.unbind"
      [] k = "basic_recover" -> "basic.recover"

\* the no-wait bit as written: queue_declare writes it, queue_unbind does not
\* (the method has none), basic_recover has none
NowaitWritten(k, nowait) == k = "queue_declare" /\ nowait

\* `if not nowait: return self.wait(...)`; basic_recover never waits
OdWaits(k, nowait) == k # "basic_recover" /\ ~nowait

\* allowed_methods of the operation, with Channel.Close in front
OdAllowed(k) == {"channel.close", OdRequest(k) \o "-ok"}

\* queue_declare, queue_unbind, basic_recover: _send_method, then wait or return
OdCall(k, nowait) ==
    /\ od.pc = "idle" /\ od.n < MaxOrderOps
    /\ odOut' = Append(odOut, [ty |-> OdRequest(k), nowait |-> NowaitWritten(k, nowait),
                               n |-> od.n + 1])
    /\ od' = [pc |-> IF OdWaits(k, nowait) THEN "scan" ELSE "idle",
              op |-> k, req |-> od.n + 1, got |-> 0, n |-> od.n + 1]
    /\ UNCHANGED <<odIn, odQ>>
    /\ UNCHANGED offOrder

\* _wait_method, before its loop: the first allowed method of the method_queue
OdScan ==
    LET hits == {i \in 1..Len(odQ) : odQ[i].ty \in OdAllowed(od.op)} IN
    /\ od.pc = "scan"
    /\ IF hits = {}
       THEN od' = [od EXCEPT !.pc = "read"] /\ odQ' = odQ
       ELSE LET i == CHOOSE j \in hits : \A h \in hits : j <= h IN
            /\ odQ' = RemoveAt(odQ, i)
            /\ od' = [od EXCEPT !.pc = "idle", !.got = odQ[i].re]
    /\ UNCHANGED <<odOut, odIn>>
    /\ UNCHANGED offOrder

\* _wait_method, the loop: the method read is returned if allowed, else queued
OdRead ==
    /\ od.pc = "read" /\ odIn # <<>>
    /\ odIn' = Tail(odIn)
    /\ IF Head(odIn).ty \in OdAllowed(od.op)
       THEN od' = [od EXCEPT !.pc = "idle", !.got = Head(odIn).re] /\ odQ' = odQ
       ELSE od' = od /\ odQ' = Append(odQ, Head(odIn))
    /\ UNCHANGED odOut
    /\ UNCHANGED offOrder

\* the broker answers each request in turn, unless its no-wait bit is set
OdBroker ==
    /\ odOut # <<>>
    /\ odOut' = Tail(odOut)
    /\ odIn' = IF Head(odOut).nowait THEN odIn
               ELSE Append(odIn, [ty |-> Head(odOut).ty \o "-ok", re |-> Head(odOut).n])
    /\ UNCHANGED <<od, odQ>>
    /\ UNCHANGED offOrder

NextOrder ==
    \/ \E k \in OrderOps, nowait \in BOOLEAN : OdCall(k, nowait)
    \/ OdScan
    \/ OdRead
    \/ OdBroker

SpecOrder == Init /\ [][NextOrder]_vars

\* ============================================================= assemble
\* MethodReader._next_method at the granularity of frames.  A method under
\* assembly records the places in asmSeen of its METHOD and HEADER frames;
\* an emitted method also records the place of its last frame.
AsmFrames ==
    {[ty |-> "METHOD", ch |-> c, content |-> k] : c \in AsmChans, k \in BOOLEAN}
    \cup {[ty |-> "HEADER", ch |-> c, body_size |-> n] : c \in AsmChans, n \in {0, 3}}
    \cup {[ty |-> "BODY", ch |-> c, payload |-> b] : c \in AsmChans, b \in {<<1>>, <<2, 3>>}}
    \cup {[ty |-> "HEARTBEAT", ch |-> 0]}

\* Method(): load_method_frame
NewMethod(f, at) ==
    [ch |-> f.ch, content |-> f.content, id |-> at, hdr |-> 0, last |-> at,
     body_size |-> Nil, body |-> <<>>]

\* Method.load_header_frame
LoadHeaderFrame(m, f, at) == [m EXCEPT !.body_size = f.body_size, !.hdr = at, !.last = at]

\* the mutation: the payload is put in front of the body
LoadBodyFrameInFront(m, f, at) == [m EXCEPT !.body = f.payload \o @, !.last = at]

\* Method.load_body_frame: _body_bytes.extend(frame.payload)
LoadBodyFrame(m, f, at) == [m EXCEPT !.body = @ \o f.payload, !.last = at]

\* the mutation: complete as soon as there is a header
MethodCompleteAtHeader(m) == TRUE

\* Method.complete
MethodComplete(m) == m.body_size = 0 \/ Len(m.body) = m.body_size

\* `frame.frame_type not in (self.expected_types[frame.channel], 8)`
UnexpectedType(f) == f.ty \notin {asmExpected[f.ch], "HEARTBEAT"}

UnexpectedFrame(f, at) == [error |-> "UnexpectedFrame", ch |-> f.ch, last |-> at]
IsError(x) == "error" \in DOMAIN x

\* the mutation: the frame is dropped without a trace
PutNothing(q, f, at) == q

\* self.method_queue.append(UnexpectedFrame(msg, channel_id=frame.channel))
PutUnexpected(q, f, at) == Append(q, UnexpectedFrame(f, at))

\* read_method is called
AsmReadMethod ==
    /\ asmPc = "idle" /\ Len(asmSeen) < MaxFrames
    /\ asm' = [asm EXCEPT !.pc = "next"]
    /\ UNCHANGED offAssemble

\* a content method is complete: queued, its channel back to METHOD
AsmEmit(a, m) ==
    [a EXCEPT !.fifo = Append(@, m), !.partial[m.ch] = Nil, !.expected[m.ch] = "METHOD"]

\* _next_method, one turn of `while not self.method_queue`: read_frame returns
\* f, which is checked against the type expected on its channel and processed
AsmFrame(f) ==
    LET at == Len(asmSeen) + 1
        a == [asm EXCEPT !.seen = Append(@, f)]
    IN
    /\ asmPc = "next" /\ asmFifo = <<>> /\ Len(asmSeen) < MaxFrames
    /\ asm' =
         IF UnexpectedType(f)
         THEN [a EXCEPT !.fifo = PutUnexpected(@, f, at)]
         ELSE CASE f.ty = "METHOD" ->
                     IF f.content
                     THEN [a EXCEPT !.partial[f.ch] = NewMethod(f, at),
                                    !.expected[f.ch] = "HEADER"]
                     ELSE [a EXCEPT !.fifo = Append(@, NewMethod(f, at))]
                [] f.ty = "HEADER" ->
                     LET m == LoadHeaderFrame(asmPartial[f.ch], f, at) IN
                     IF MethodComplete(m)
                     THEN AsmEmit(a, m)
                     ELSE [a EXCEPT !.partial[f.ch] = m, !.expected[f.ch] = "BODY"]
                [] f.ty = "BODY" ->
                     LET m == LoadBodyFrame(asmPartial[f.ch], f, at) IN
                     IF MethodComplete(m)
                     THEN AsmEmit(a, m)
                     ELSE [a EXCEPT !.partial[f.ch] = m]
                [] OTHER -> a
    /\ UNCHANGED offAssemble

\* _read_method: method_queue.popleft(), returned, or raised if an Exception
AsmPop ==
    /\ asmPc = "next" /\ asmFifo # <<>>
    /\ asm' = [asm EXCEPT !.returned = Append(@, Head(asmFifo)), !.fifo = Tail(@),
                          !.pc = "idle"]
    /\ UNCHANGED offAssemble

NextAssemble ==
    \/ AsmReadMethod
    \/ \E f \in AsmFrames : AsmFrame(f)
    \/ AsmPop

SpecAssemble == Init /\ [][NextAssemble]_vars

\* ================================================================= lock
\* Channel.queue_declare inside the wrapper of synchronized('lock'), called
\* by the threads on one Channel.  arguments is "table" for a table that can
\* be written and "bad" for one holding a value write_table rejects.
\* the mutation: the lock is released on return only
WithoutFinally(res) == IF res = "ok" THEN 0 ELSE lkLock

\* wrapper: `finally: lock.release()`
Finally(res) == 0

\* the call of thread t ends: it returns (res = "ok") or raises res
LkExit(l, t, res) ==
    [l EXCEPT !.lock = Finally(res),
              !.thr[t] = [pc |-> "idle", nowait |-> FALSE, arguments |-> "table",
                          result |-> res],
              !.exits = @ \cup {res}]

\* the wrapper is entered
LkCall(t, nowait, arguments) ==
    /\ lkThr[t].pc = "idle" /\ lkCalls < MaxLockCalls
    /\ lk' = [lk EXCEPT !.thr[t] = [pc |-> "acquire", nowait |-> nowait,
                                    arguments |-> arguments, result |-> "none"],
                        !.calls = @ + 1]
    /\ UNCHANGED offLock

\* wrapper: lock.acquire(False), else lock.acquire()
LkAcquire(t) ==
    /\ lkThr[t].pc = "acquire" /\ lkLock = 0
    /\ lk' = [lk EXCEPT !.lock = t, !.thr[t].pc = "body"]
    /\ UNCHANGED offLock

\* queue_declare up to its wait: write_table may reject the arguments,
\* _send_method raises without a connection, write_frame on a dead socket
LkBody(t) ==
    /\ lkThr[t].pc = "body"
    /\ lk' = IF lkThr[t].arguments = "bad"
             THEN LkExit(lk, t, "FrameSyntaxError")
             ELSE IF ~lkChan.connection
             THEN LkExit(lk, t, "RecoverableConnectionError")
             ELSE IF ~lkSock.connected
             THEN LkExit(lk, t, "IOError")
             ELSE LET l == [lk EXCEPT !.out = Append(@, [nowait |-> lkThr[t].nowait])] IN
                  IF lkThr[t].nowait
                  THEN LkExit(l, t, "ok")
                  ELSE [l EXCEPT !.thr[t].pc = "wait"]
    /\ UNCHANGED offLock

\* wait(): the method read is queue.declare-ok, or a close, whose handler
\* tears the Channel down and raises the mapped error
LkWait(t) ==
    LET l == [lk EXCEPT !.inc = Tail(@)] IN
    /\ lkThr[t].pc = "wait" /\ lkIn # <<>>
    /\ lk' = CASE Head(lkIn) = "queue.declare-ok" ->
                    LkExit(l, t, "ok")
               [] Head(lkIn) = "channel.close" ->
                    LkExit([l EXCEPT !.chan = [is_open |-> FALSE, connection |-> FALSE]],
                           t, "ChannelError")
               [] Head(lkIn) = "connection.close" ->
                    LkExit([l EXCEPT !.chan = [is_open |-> FALSE, connection |-> FALSE],
                                     !.sock.connected = FALSE],
                           t, "ConnectionError")
    /\ UNCHANGED offLock

\* wait(): read_frame raises, the timeout set on the socket has run out or
\* the peer is gone
LkReadFails(t) ==
    /\ lkThr[t].pc = "wait" /\ lkIn = <<>>
    /\ \/ lkSock.timeout /\ lk' = LkExit(lk, t, "socket.timeout")
       \/ ~lkSock.connected /\ lk' = LkExit(lk, t, "IOError")
    /\ UNCHANGED offLock

\* the broker handles a request: nothing for a no-wait one that succeeds
LkBroker ==
    /\ lkOut # <<>> /\ lkSock.connected
    /\ \E reply \in {"queue.declare-ok", "channel.close", "connection.close"} :
          lk' = [lk EXCEPT !.out = Tail(@),
                           !.inc = IF Head(lkOut).nowait /\ reply = "queue.declare-ok"
                                   THEN @ ELSE Append(@, reply)]
    /\ UNCHANGED offLock

\* read_method(timeout) of a drain_events beside: the timeout is set on the
\* socket, and taken off again
LkSockTimeout ==
    /\ lk' = [lk EXCEPT !.sock.timeout = ~@]
    /\ UNCHANGED offLock

\* the peer closes the socket
LkPeerDrops ==
    /\ lkSock.connected
    /\ lk' = [lk EXCEPT !.sock.connected = FALSE]
    /\ UNCHANGED offLock

NextLock ==
    \/ \E t \in Threads, nowait \in BOOLEAN, arguments \in {"table", "bad"} :
          LkCall(t, nowait, arguments)
    \/ \E t \in Threads : LkAcquire(t)
    \/ \E t \in Threads : LkBody(t)
    \/ \E t \in Threads : LkWait(t)
    \/ \E t \in Threads : LkReadFails(t)
    \/ LkBroker
    \/ LkSockTimeout
    \/ LkPeerDrops

SpecLock == Init /\ [][NextLock]_vars

\* ================================================================ claims
\* a thread that holds the lock of its operation and has not returned
Running(t) == pc[t] \in {"body", "scan", "read", "rscan", "rread"}

\* thread t's operation returns or raises in this step
Exits(t) == pc[t] # "idle" /\ pc'[t] = "idle"

\* the step in which thread t handles a server-initiated channel.close: close-ok
\* and a fresh channel.open are written (Channel._close, _do_revive)
Revives(t) ==
    /\ op[t] \in LockedOps \ {"close"} /\ Running(t) /\ pc'[t] = "rscan"
    /\ Len(c2s') = Len(c2s) + 2
    /\ c2s'[Len(c2s')] = Meth(chan[obj[t]].channel_id, "channel.open")

C2_PublishWaitsForAck ==
    [][\A t \in Threads :
         (Exits(t) /\ op[t] = "basic_publish" /\ result'[t] = "ok" /\ obj[t] \in selectOk) =>
            /\ s2c # <<>>
            /\ Head(s2c) = Meth(chan[obj[t]].channel_id, "basic.ack")
            /\ s2c' = Tail(s2c)]_vars

\* C4: at most one thread of the connection is between the request of a
\* lock-decorated operation and the reply it waits for.
C4_OneRpcPerConnection ==
    Cardinality({t \in Threads : op[t] \in LockedOps /\ Waiting(t)}) <= 1

\* the thread whose operation on a Channel writes in this step
Wrote(t) ==
    /\ Len(c2s') > Len(c2s)
    /\ op[t] \in LockedOps /\ Running(t)
    /\ c2s'[Len(c2s')].ch = chan[obj[t]].channel_id

\* C5: when an operation writes a method on a channel, no other thread is inside
\* an operation on the same Channel: a second operation writes nothing until the
\* first has returned.
C5_SecondWaitsForFirst ==
    [][\A t \in Threads : Wrote(t) =>
          \A u \in Threads \ {t} : ~(obj[u] = obj[t] /\ op[u] \in LockedOps /\ Running(u))]_vars

\* C5 witness: a thread waits for the lock of a Channel on which another thread has
\* written its request and waits for the reply
C5_Witness ==
    \E t, u \in Threads :
        /\ t # u /\ obj[t] = obj[u]
        /\ pc[u] = "acquire" /\ pc[t] \in {"scan", "read"} /\ lock[obj[t]] = t

\* the place of a frame in the order write_method queues the frames of a method
Rank(f) == CASE f.ty = "METHOD" -> 1 [] f.ty = "HEADER" -> 2 [] OTHER -> 2 + f.chunk

\* C3 as stated: between two frames of one method no frame of any other channel
\* is on the socket.
C3_NoFrameOfOtherChannelBetween ==
    \A i, j, k \in DOMAIN wire :
        (i < k /\ k < j /\ wire[i].frame.n = wire[j].frame.n) =>
            wire[k].frame.ch = wire[i].frame.ch

\* C3, amended: the frames of each method reach the socket in the order METHOD,
\* HEADER, BODY chunks, and between them there is no frame of another method of the
\* same channel; frames of other channels and heartbeats may lie between them.
C3_FramesInOrderPerChannel ==
    /\ \A i, j \in DOMAIN wire :
          (i < j /\ wire[i].frame.n = wire[j].frame.n) =>
              Rank(wire[i].frame) <= Rank(wire[j].frame)
    /\ \A i, j, k \in DOMAIN wire :
          (i < k /\ k < j /\ wire[i].frame.n = wire[j].frame.n
             /\ wire[k].frame.ch = wire[i].frame.ch) =>
              wire[k].frame.n = wire[i].frame.n

\* C3 witness: a content method with a body frame is on the socket with a frame of
\* another channel between its METHOD frame and its last BODY frame
C3_Witness ==
    \E i, j, k \in DOMAIN wire :
        /\ i < k /\ k < j
        /\ wire[i].frame.n = wire[j].frame.n
        /\ wire[i].frame.ty = "METHOD" /\ wire[j].frame.ty = "BODY"
        /\ wire[k].frame.ch # wire[i].frame.ch

\* C6: the sends of each frame, heartbeats included, are next to each other on the
\* socket: nothing of another frame lies between them.
C6_FrameBytesContiguous ==
    \A i \in DOMAIN wire :
        /\ wire[i].part > 1 =>
              /\ i > 1
              /\ wire[i - 1] = [frame |-> wire[i].frame, part |-> wire[i].part - 1]
        /\ (wire[i].part < FrameParts /\ i < Len(wire)) =>
              wire[i + 1] = [frame |-> wire[i].frame, part |-> wire[i].part + 1]

\* C6 witness: a frame is partly on the socket while another thread has a frame to
\* write (a heartbeat among them) and is kept out of write_frame
C6_Witness ==
    \E t, u \in Threads :
        /\ t # u
        /\ wlock = t /\ wpos[t] > 1
        /\ wframes[u] # <<>> /\ wpos[u] = 0
        /\ Head(wframes[u]).ty = "HEARTBEAT"

\* a Channel on which close() has been called and has returned or raised
ClientClosed(o) == chan[o].born = "live" /\ ~chan[o].connection /\ conn.open

C8_CloseOkClosesChannel ==
    [][\A t \in Threads :
         (Exits(t) /\ Waiting(t) /\ op[t] = "close" /\ result'[t] = "ok") =>
            LET o == obj[t]
                id == chan[obj[t]].channel_id
            IN /\ ~chan'[o].is_open /\ ~chan'[o].connection
               /\ id \in Ids
               /\ conn'.channels[id] = Nil
               /\ Count(conn'.avail, id) = 1
               /\ chan'[o].callbacks = {} /\ chan'[o].cancel_callbacks = {}
               /\ chan'[o].no_ack_consumers = {}]_vars

\* C8 witness: close() returned on a Channel on which basic_consume had registered a
\* callback, and its id is back in the pool
C8_Witness ==
    \E t, u \in Threads :
        /\ t # u /\ obj[t] = obj[u]
        /\ pc[t] = "idle" /\ op[t] = "close" /\ result[t] = "ok"
        /\ pc[u] = "idle" /\ op[u] = "basic_consume" /\ result[u] = "ok"
        /\ conn.open /\ chan[obj[t]].channel_id = Nil /\ chan[obj[t]].callbacks = {}

\* C9: every exit of a close() that sent channel.close and got the broker's
\* answer, channel.close-ok or the broker's own channel.close, leaves the Channel's
\* lock free and its id out of the channel map and once in the free pool.
C9_CloseReleasesLockAndId ==
    [][\A t \in Threads :
         (Exits(t) /\ Waiting(t) /\ op[t] = "close"
            /\ result'[t] \in {"ok", "ChannelError"}) =>
            LET id == chan[obj[t]].channel_id IN
            /\ lock'[obj[t]] = 0
            /\ id \in Ids => (conn'.channels[id] = Nil /\ Count(conn'.avail, id) = 1)]_vars

\* C10: once the connection is closed the transport is shut down and every Channel
\* object is torn down.
C10_ClosedConnectionTornDown ==
    ~conn.open =>
        /\ ~transport.sock /\ ~transport.connected
        /\ \A o \in Objs : ~chan[o].is_open /\ ~chan[o].connection

Holders(id) == {o \in Objs : chan[o].channel_id = id}

\* C12: channel(id) for an id in the map returns the Channel registered there;
\* constructing a Channel takes exactly the id asked for, or with no id an id of
\* the free pool, registers the new Channel under it and removes it from the pool;
\* an id that is not free gives ConnectionError and an empty pool ResourceError,
\* with nothing changed; and no two Channel objects ever hold the same id.
C12_ChannelIds ==
    [][/\ \A t \in Threads, id \in Ids :
            ChannelLookup(t, id) =>
                obj'[t] = conn.channels[id] /\ result'[t] = "ok" /\ conn' = conn /\ chan' = chan
       /\ \A t \in Threads, id \in Ids \cup {Nil} :
            ChannelCtor(t, id) =>
                IF (id = Nil /\ Len(conn.avail) > 0) \/ (id # Nil /\ Count(conn.avail, id) > 0)
                THEN \E o \in Objs, got \in Ids :
                        /\ id # Nil => got = id
                        /\ chan[o].born = "no" /\ chan'[o].channel_id = got
                        /\ Holders(got) = {} /\ conn.channels[got] = Nil
                        /\ conn'.channels[got] = o
                        /\ Count(conn.avail, got) = 1 /\ Count(conn'.avail, got) = 0
                        /\ \A i \in Ids \ {got} :
                              /\ conn'.channels[i] = conn.channels[i]
                              /\ Count(conn'.avail, i) = Count(conn.avail, i)
                ELSE /\ result'[t] = IF id = Nil THEN "ResourceError" ELSE "ConnectionError"
                     /\ conn' = conn /\ chan' = chan /\ c2s' = c2s
       /\ \A id \in Ids : Cardinality(Holders(id)') <= 1]_vars

\* C12 witness: with every id taken by a Channel, one thread was refused a free id
\* and another one the id it asked for
C12_Witness ==
    \E t, u \in Threads :
        /\ op[t] = "open" /\ result[t] = "ResourceError"
        /\ op[u] = "open" /\ result[u] = "ConnectionError"
        /\ \A id \in Ids : Cardinality(Holders(id)) = 1

\* the serial numbers of the basic.return methods read so far for channel c
ReturnsRead(c) ==
    LET f == SelectSeq(rcvd, LAMBDA m : m.ty = "basic.return" /\ m.ch = c)
    IN [i \in 1..Len(f) |-> f[i].n]

TimesQueued(mq, n) ==
    Cardinality({<<c, i>> \in (0..NEvChans) \X (1..(MaxEvOps + MaxPushes)) :
                    i <= Len(mq[c]) /\ mq[c][i].n = n})

\* the first method queued, in the order of the channel map
FirstQueued == Head(method_queue[CHOOSE d \in Queued : \A e \in Queued : d <= e])

\* C14: a drain_events call goes on to read only when nothing is queued; the step
\* in which it dispatches takes the first queued method (at the call) or the
\* method read (in the read loop), takes it out of where it was, and has the
\* effect and outcome of the addressed channel's handler for it; every method
\* received is in exactly one place: queued once, dispatched once, or taken by a wait.
C14_DrainDispatchesOne ==
    [][/\ \A t \in Threads :
            /\ (caller[t].pc = "idle" /\ caller'[t].pc = "dread") => Queued = {}
            /\ (caller[t].pc \in {"idle", "dread"} /\ caller'[t] # caller[t]
                   /\ dispatched' # dispatched) =>
                 LET m == IF caller[t].pc = "idle" THEN FirstQueued ELSE Head(fromPeer) IN
                 /\ dispatched' = Append(dispatched, m.n)
                 /\ IF caller[t].pc = "idle"
                    THEN fromPeer' = fromPeer /\ TimesQueued(method_queue', m.n) = 0
                    ELSE fromPeer' = Tail(fromPeer) /\ method_queue' = method_queue
                 /\ \E res \in Outcomes : HandleMethod(m, res) /\ caller'[t].result = res
       /\ \A i \in 1..Len(rcvd') :
             Count(dispatched', rcvd'[i].n) + TimesQueued(method_queue', rcvd'[i].n)
                + (IF rcvd'[i].n \in taken' THEN 1 ELSE 0) = 1]_vars
\* the serial numbers of the methods a handler is run for in this step
NewlyHandled ==
    (taken' \ taken) \cup (IF dispatched' # dispatched THEN {dispatched'[Len(dispatched')]}
                           ELSE {})

\* thread t's drain_events call ends in this step with outcome res
DrainEnds(t, res) ==
    /\ caller'[t] # caller[t]
    /\ caller'[t].pc = "idle" /\ caller'[t].op = "drain_events" /\ caller'[t].result = res

\* C15: the step that dispatches a basic.deliver calls the callback registered
\* for its consumer tag on its channel once, with the delivery_info of the
\* method, and raises when there is none; every callback invocation belongs to
\* one dispatched delivery of its own.
C15_DeliverCallsCallbackOnce ==
    [][/\ \A i \in 1..Len(rcvd') :
            (rcvd'[i].n \in NewlyHandled /\ rcvd'[i].ty = "basic.deliver") =>
               LET m == rcvd'[i] IN
               IF callbacks[m.ch][m.tag] = "fn"
               THEN /\ calls' = Append(calls, [fn |-> "callback", ch |-> m.ch,
                                               info |-> [consumer_tag |-> m.tag,
                                                         delivery_tag |-> m.n]])
                    /\ \E t \in Threads : DrainEnds(t, "ok")
               ELSE /\ calls' = calls
                    /\ \E t \in Threads : DrainEnds(t, "Exception")
       /\ \A i \in 1..Len(calls') : calls'[i].fn = "callback" =>
             /\ Count(dispatched', calls'[i].info.delivery_tag) = 1
             /\ \A j \in 1..Len(calls') :
                   (calls'[j].fn = "callback" /\ j # i) =>
                      calls'[j].info.delivery_tag # calls'[i].info.delivery_tag]_vars

\* a delivery on channel 2 for tag "b" has reached its callback
C15_Witness ==
    \E i \in 1..Len(calls), t \in Threads :
        /\ calls[i] = [fn |-> "callback", ch |-> 2,
                       info |-> [consumer_tag |-> "b", delivery_tag |-> 2]]
        /\ caller[t].op = "drain_events" /\ caller[t].result = "ok"

\* the registrations of every tag but g of channel c are the same after the step
OthersKept(c, g) ==
    \A d \in EvChans, h \in Tags : <<d, h>> # <<c, g>> =>
        /\ callbacks'[d][h] = callbacks[d][h]
        /\ (h \in cancel_callbacks'[d]) = (h \in cancel_callbacks[d])
        /\ (h \in no_ack_consumers'[d]) = (h \in no_ack_consumers[d])

\* C16: the step that handles a basic.cancel of the broker for a tag calls the
\* cancel callback registered for it and else raises ConsumerCancelled; after the
\* step that handles basic.cancel-ok for a tag the channel has no callback, no
\* cancel callback and no no_ack membership for it; the registrations of all
\* other tags are the same before and after both steps.
C16_CancelHandling ==
    [][\A i \in 1..Len(rcvd') : rcvd'[i].n \in NewlyHandled =>
          LET m == rcvd'[i] IN
          /\ m.ty = "basic.cancel" =>
                /\ IF m.tag \in cancel_callbacks[m.ch]
                   THEN /\ calls' = Append(calls, [fn |-> "on_cancel", ch |-> m.ch,
                                                   info |-> [consumer_tag |-> m.tag,
                                                             delivery_tag |-> 0]])
                        /\ \E t \in Threads : DrainEnds(t, "ok")
                   ELSE /\ calls' = calls
                        /\ \E t \in Threads : DrainEnds(t, "ConsumerCancelled")
                /\ OthersKept(m.ch, m.tag)
          /\ m.ty = "basic.cancel-ok" =>
                /\ callbacks'[m.ch][m.tag] = "absent"
                /\ m.tag \notin cancel_callbacks'[m.ch]
                /\ m.tag \notin no_ack_consumers'[m.ch]
                /\ OthersKept(m.ch, m.tag)]_vars

\* a cancel of the broker was raised as ConsumerCancelled while another consumer
\* of the same channel is registered
C16_Witness ==
    \E t \in Threads, c \in EvChans, g \in Tags :
        /\ caller[t].op = "drain_events" /\ caller[t].result = "ConsumerCancelled"
        /\ callbacks[c][g] = "absent" /\ \E h \in Tags \ {g} : callbacks[c][h] = "fn"
        /\ \E i \in 1..Len(rcvd) : rcvd[i].ty = "basic.cancel" /\ rcvd[i].ch = c /\ rcvd[i].tag = g
\* C18: an operation that ends with an I/O error leaves the transport marked not
\* connected, and an operation whose write is attempted on a transport already
\* marked not connected ends with RecoverableConnectionError.
C18_IoErrorFailsLaterOperations ==
    [][\A t \in Threads :
          /\ (Exits(t) /\ result'[t] = "IOError") => ~transport'.connected
          /\ (pc[t] = "body" /\ pc'[t] # "body" /\ transport.sock /\ ~transport.connected) =>
                (Exits(t) /\ result'[t] = "RecoverableConnectionError")]_vars
\* C17: when a timed read_method ends with Timeout the transport is still marked
\* connected, the socket has the timeout it had before the call, and nothing the
\* call had taken from the socket is dropped; while the peer sends no faulty
\* frame the methods returned are the methods sent, whole and in order.
C17_TimeoutLosesNothing ==
    [][/\ (reader.pc = "frame" /\ reader'.pc = "idle" /\ reader'.result = "Timeout") =>
             /\ connected'
             /\ sock_timeout' = reader.orig
             /\ rframe = <<>>
       /\ inPeer.faults = 0 =>
             /\ reader'.result \in {"none", "ok", "Timeout", "IOError"}
             /\ methods_read' = [i \in 1..Len(methods_read') |-> i]]_vars

\* C19: the step that raises UnexpectedFrame leaves the transport marked not
\* connected, and once one has been raised no further method is returned.
C19_UnexpectedFrameIsFatal ==
    [][/\ (reader.pc = "frame" /\ reader'.pc = "idle" /\ reader'.result = "UnexpectedFrame") =>
             ~connected'
       /\ unexpected => methods_read' = methods_read]_vars

\* the entries that may follow entry x of the handshake trace
HsFollows(x) ==
    CASE x = "<-connection.start" -> {"->connection.start-ok"}
      [] x = "->connection.start-ok" -> {"<-connection.secure", "<-connection.tune"}
      [] x = "<-connection.secure" -> {"->connection.secure-ok"}
      [] x = "->connection.secure-ok" -> {"<-connection.secure", "<-connection.tune"}
      [] x = "<-connection.tune" -> {"->connection.tune-ok"}
      [] x = "->connection.tune-ok" -> {"->connection.open"}
      [] x = "->connection.open" -> {"<-connection.open-ok"}
      [] OTHER -> {}

\* C20: what the client receives and sends during the handshake starts with the
\* receipt of connection.start and each entry is followed only by the one the
\* order start, start-ok, (secure, secure-ok)*, tune, tune-ok, open, open-ok
\* allows; a connection.secure received is answered by connection.secure-ok
\* before the client waits again; the constructor has returned only when
\* connection.open-ok is the last entry.
C20_HandshakeOrder ==
    /\ hsTrace # <<>> => hsTrace[1] = "<-connection.start"
    /\ \A i \in 1..(Len(hsTrace) - 1) : hsTrace[i + 1] \in HsFollows(hsTrace[i])
    /\ hs.pc = "wait_tune" =>
          hsTrace[Len(hsTrace)] \in {"->connection.start-ok", "->connection.secure-ok"}
    /\ hs.pc = "done" => hsTrace[Len(hsTrace)] = "<-connection.open-ok"

\* ------------------------------------------------------------------- C21
\* the handshake has passed connection.tune
Tuned == hs.pc \in {"open", "wait_open_ok", "done"}

\* C21 as stated: after tuning, the negotiated heartbeat is the smaller proposal
\* when both are non-zero and the larger one otherwise.
C21_HeartbeatMinOrMax ==
    Tuned =>
        hs.heartbeat = IF hs.client_heartbeat # 0 /\ hs.server_heartbeat # 0
                       THEN Min(hs.client_heartbeat, hs.server_heartbeat)
                       ELSE Max(hs.client_heartbeat, hs.server_heartbeat)

\* C21 amended: after tuning, the negotiated heartbeat is 0 when the client
\* proposed 0, the client's proposal when the server proposed 0, and the
\* smaller proposal when both are non-zero.
C21_HeartbeatNegotiated ==
    Tuned =>
        /\ hs.client_heartbeat = 0 => hs.heartbeat = 0
        /\ (hs.client_heartbeat # 0 /\ hs.server_heartbeat = 0) =>
               hs.heartbeat = hs.client_heartbeat
        /\ (hs.client_heartbeat # 0 /\ hs.server_heartbeat # 0) =>
               /\ hs.heartbeat \in {hs.client_heartbeat, hs.server_heartbeat}
               /\ hs.heartbeat <= hs.client_heartbeat
               /\ hs.heartbeat <= hs.server_heartbeat

\* tuned with two different non-zero proposals, the server's being the smaller
C21_Witness ==
    Tuned /\ hs.client_heartbeat = 60 /\ hs.server_heartbeat = 10 /\ hs.heartbeat = 10

\* ------------------------------------------------------------------- C22
\* C22: a client proposal of 0 gives 0 whatever the server proposes, client 10
\* against server 60 gives 10, and connection.tune-ok carries the negotiated
\* heartbeat.
C22_HeartbeatCasesAndTuneOk ==
    /\ Tuned =>
          /\ hs.client_heartbeat = 0 => hs.heartbeat = 0
          /\ (hs.client_heartbeat = 10 /\ hs.server_heartbeat = 60) => hs.heartbeat = 10
    /\ \A i \in 1..Len(hsOut) :
          hsOut[i].ty = "connection.tune-ok" => Tuned /\ hsOut[i].heartbeat = hs.heartbeat

\* tune-ok for client 10 against server 60 is on its way to the broker
C22_Witness ==
    /\ hs.client_heartbeat = 10 /\ hs.server_heartbeat = 60
    /\ \E i \in 1..Len(hsOut) : hsOut[i].ty = "connection.tune-ok" /\ hsOut[i].heartbeat = 10

\* ------------------------------------------------------------------- C23
\* C23: after tuning, channel_max is the minimum of the client-proposed and the
\* server-proposed values.
C23_ChannelMaxIsMinimum ==
    [][(hs.pc = "wait_tune" /\ hs'.pc = "open") =>
          hs'.channel_max = Min(hs.channel_max, Head(hsIn).channel_max)]_vars

\* ------------------------------------------------------------------- C24
\* the payloads of the BODY frames of the n-th publish that have been written
BodyPayloads(n) ==
    LET fs == SelectSeq(sent, LAMBDA f : f.ty = "BODY" /\ f.n = n)
    IN [k \in 1..Len(fs) |-> fs[k].payload]

RECURSIVE Concat(_)
Concat(ss) == IF ss = <<>> THEN <<>> ELSE Head(ss) \o Concat(Tail(ss))

\* the n-th publish has returned
Returned(n) == n < Len(published) \/ (n = Len(published) /\ pub.pc = "idle")

\* C24: for every published body B of length L and frame_max F, the BODY
\* payloads written concatenate to B in order, each is at most F - 8 bytes long,
\* there are ceil(L / (F - 8)) of them, and none when L = 0.
C24_BodyFramesCarryBody ==
    \A n \in 1..Len(published) :
        (published[n].ok /\ Returned(n)) =>
            LET B == published[n].body
                L == Len(B)
                size == pub.frame_max - 8
                ps == BodyPayloads(n)
            IN /\ Concat(ps) = B
               /\ \A k \in 1..Len(ps) : Len(ps[k]) <= size
               /\ Len(ps) * size >= L /\ (Len(ps) - 1) * size < L
               /\ L = 0 => ps = <<>>

\* a body of three bytes written in chunks of two: two BODY frames, the last one short
C24_Witness ==
    /\ pub.pc = "idle" /\ pub.frame_max - 8 = 2
    /\ \E n \in 1..Len(published) :
          /\ published[n].ok /\ Len(published[n].body) = 3
          /\ Len(BodyPayloads(n)) = 2 /\ Len(BodyPayloads(n)[2]) = 1

\* ------------------------------------------------------------------- C25
\* C25: when encoding a part of a method fails, the error reaches the caller
\* before any frame of that method is written, and the channel stays usable:
\* its lock is free, and a later publish writes all its frames.
C25_EncodeErrorWritesNothing ==
    /\ \A n \in 1..Len(published) :
          ~published[n].ok =>
              \A i \in 1..Len(sent) : sent[i].n # n
    /\ pub.pc = "idle" => ~pub.lock /\ frames = <<>>
    /\ \A n \in 1..Len(published) :
          (published[n].ok /\ Returned(n)) =>
              /\ \E i \in 1..Len(sent) : sent[i] = PFrame("METHOD", n, <<>>)
              /\ \E i \in 1..Len(sent) :
                    sent[i] = PFrame("HEADER", n, <<Len(published[n].body)>>)

\* a publish that failed, the error raised, then a publish that went out
C25_Witness ==
    /\ Len(published) = 2 /\ ~published[1].ok /\ published[2].ok
    /\ pub.pc = "idle" /\ pub.result = "ok"
    /\ sent # <<>> /\ sent[1].n = 2

RECURSIVE KindOf(_)
KindOf(cls) ==
    IF cls \in {"RecoverableChannelError", "IrrecoverableChannelError",
                "RecoverableConnectionError", "IrrecoverableConnectionError",
                "ChannelError", "AMQPConnectionError", "AMQPError"}
    THEN cls
    ELSE KindOf(Base(cls))

\* C27: error_for_code maps 311, 313, 405 to recoverable channel errors, 403,
\* 404, 406 to irrecoverable channel errors, 320 to a recoverable connection
\* error, 402, 501..506, 530, 540, 541 to irrecoverable connection errors, an
\* unknown code to the caller's default kind, and every error carries
\* reply_code, reply_text, method_type and channel_id.
C27_ErrorForCode ==
    ec.pc = "done" =>
        LET k == KindOf(ec.exc.cls) IN
        /\ ec.code \in {311, 313, 405} => k = "RecoverableChannelError"
        /\ ec.code \in {403, 404, 406} => k = "IrrecoverableChannelError"
        /\ ec.code = 320 => k = "RecoverableConnectionError"
        /\ ec.code \in {402, 501, 502, 503, 504, 505, 506, 530, 540, 541} =>
               k = "IrrecoverableConnectionError"
        /\ ec.code \in {0, 200, 312, 599} => k = ec.default
        /\ ec.exc.reply_code = ec.code /\ ec.exc.reply_text = ec.text
        /\ ec.exc.method_type = ec.meth_type /\ ec.exc.channel_id = ec.channel_id

\* ------------------------------------------------------------------- C28
\* the step is a call of is_alive()
IsAliveCall == al'.n = al.n + 1 /\ al'.last \in {"Transport.is_alive", "Connection.is_alive"}

\* C28: is_alive() returns False and writes nothing when the transport has no
\* socket or is not connected, which is the case after a close and after a
\* connection error; otherwise it writes one empty HEARTBEAT frame on channel 0
\* and returns True exactly when the write succeeds; a channel error leaves
\* the transport as it is.
C28_IsAlive ==
    [][/\ IsAliveCall =>
            IF ~al.sock \/ ~al.connected
            THEN al'.result = "False" /\ probes' = probes
            ELSE \/ al'.result = "True" /\ probes' = Append(probes, HeartbeatFrame)
                 \/ al'.result = "False" /\ probes' = probes
       /\ (al'.n = al.n + 1 /\ al'.last \in {"close", "connection error"}) =>
            ~al'.sock /\ ~al'.connected
       /\ (al'.n = al.n + 1 /\ al'.last = "channel error") =>
            al'.sock = al.sock /\ al'.connected = al.connected]_vars

\* ------------------------------------------------------------------- C29
\* the step reads a notice from the broker
NoticeRead == bkIn # <<>> /\ Head(bkIn).ty \in Notices /\ bkIn' = Tail(bkIn)

\* the user callback a notice calls for, if it is set
Expected(m) ==
    IF m.ty = "connection.blocked" THEN (IF bk.on_blocked THEN <<"on_blocked">> ELSE <<>>)
    ELSE (IF bk.on_unblocked THEN <<"on_unblocked">> ELSE <<>>)

RECURSIVE Same(_, _)
\* the value read equals the value written, as Python compares them
Same(a, b) ==
    CASE a.t \in {"str", "bytes"} -> b.t = a.t /\ b.s = a.s
      [] a.t = "bool" -> b.t = "bool" /\ b.v = a.v
      [] a.t = "int" -> b.t = "int" /\ b.v = a.v
      [] a.t = "void" -> b.t = "void"
      [] a.t = "decimal" ->
            /\ b.t = "decimal" /\ b.d = 0 - a.exponent
            /\ b.n = (IF a.sign = 1 THEN 0 - DigitsValue(a.digits) ELSE DigitsValue(a.digits))
      [] a.t = "array" ->
            /\ b.t = "array" /\ Len(b.items) = Len(a.items)
            /\ \A i \in 1..Len(a.items) : Same(a.items[i], b.items[i])
      [] a.t = "table" ->
            /\ b.t = "table" /\ Len(b.kv) = Len(a.kv)
            /\ \A i \in 1..Len(a.kv) : b.kv[i][1] = a.kv[i][1] /\ Same(a.kv[i][2], b.kv[i][2])

\* the field read equals the field written
SameField(f, val) ==
    CASE f.t = "bit" -> val = f.v
      [] f.t \in {"octet", "short", "long", "longlong"} -> val = f.v
      [] f.t \in {"shortstr", "longstr"} -> val = f.s
      [] f.t = "array" -> Same([t |-> "array", items |-> f.items], [t |-> "array", items |-> val])
      [] f.t = "table" -> Same([t |-> "table", kv |-> f.kv], [t |-> "table", kv |-> val])

\* C30: for every value the writer accepts, reading back what was written
\* yields the same value: bits mixed with other fields, octet, short, long,
\* longlong, short and long strings, tables and arrays of every accepted item
\* type, including those that hold several booleans.
C30_CodecRoundTrip ==
    cx.pc = "done" =>
        /\ cx.ok
        /\ \A i \in 1..Len(cx.fields) : SameField(cx.fields[i], cx.vals[i])

\* ------------------------------------------------------------------- C31
\* the broker has sent the reply to the request thread t waits on
ReplySent(t) ==
    /\ caller[t].pc \in {"scan", "read"}
    /\ \A i \in 1..Len(toPeer) : toPeer[i].ch # caller[t].ch

\* C31: for any interleaving of threads that run RPCs on different channels, or
\* an RPC beside drain_events, every RPC whose reply the server has sent
\* eventually returns: a reply another thread read and queued for the waiting
\* channel, or that drain_events took, is never missed.
C31_RepliedRpcReturns ==
    \A t \in Threads : ReplySent(t) ~> (caller[t].pc = "idle")

\* ------------------------------------------------------------------- C32
\* C32: a call of basic_publish_confirm (also reached through basic_publish on
\* a connection with confirm_publish) eventually returns: it never blocks
\* forever on the Channel's own lock in its nested calls.
C32_PublishConfirmReturns ==
    \A t \in Threads :
        (cfThr[t] # <<>> /\ cfThr[t][1].f = "basic_publish_confirm") ~> (cfThr[t] = <<>>)

\* ------------------------------------------------------------------- C33
\* C33: basic_get on a queue with no messages returns None once the server has
\* answered basic.get-empty (60, 72); it does not keep waiting for another
\* method.
C33_GetEmptyReturnsNone ==
    (bg.pc \in {"scan", "read"} /\ bgPeer.answer = "empty")
        ~> (bg.pc = "idle" /\ bg.result = "None")

\* ------------------------------------------------------------------- C34
\* C34: each reply-expecting operation on a channel returns the reply the
\* server generated for its own request, also after operations that send a
\* request without waiting for its reply (queue_unbind with nowait,
\* basic_recover): a waiting operation never returns on the reply to an earlier
\* request.
C34_ReturnsOwnReply ==
    (od.pc = "idle" /\ od.got # 0) => od.got = od.req

\* ---------------------------------------------------------------------
\* C35: for each channel the expected frame type starts at METHOD; a METHOD
\* frame of a non-content method emits the method and stays at METHOD; one of
\* a content method emits nothing and moves to HEADER; a HEADER frame emits
\* the method and returns to METHOD when body_size is 0 and otherwise moves
\* to BODY; a BODY frame appends its payload, and emits the method and
\* returns to METHOD exactly when the accumulated length equals body_size; a
\* HEARTBEAT frame emits nothing and changes no channel's expected type.
FrameStep == Len(asmSeen') = Len(asmSeen) + 1
LastFrame == asmSeen'[Len(asmSeen')]
Emits(f) ==
    /\ Len(asmFifo') = Len(asmFifo) + 1
    /\ ~IsError(asmFifo'[Len(asmFifo')])
    /\ asmFifo'[Len(asmFifo')].ch = f.ch
    /\ asmExpected'[f.ch] = "METHOD"
EmitsNothing == asmFifo' = asmFifo
TableRow(f) ==
    LET e == asmExpected[f.ch] IN
    /\ \A d \in DOMAIN asmExpected : d # f.ch => asmExpected'[d] = asmExpected[d]
    /\ f.ty = "HEARTBEAT" => EmitsNothing /\ asmExpected' = asmExpected
    /\ (f.ty = "METHOD" /\ e = "METHOD" /\ ~f.content) =>
           Emits(f) /\ asmFifo'[Len(asmFifo')].id = Len(asmSeen')
    /\ (f.ty = "METHOD" /\ e = "METHOD" /\ f.content) =>
           EmitsNothing /\ asmExpected'[f.ch] = "HEADER"
    /\ (f.ty = "HEADER" /\ e = "HEADER") =>
           IF f.body_size = 0
           THEN Emits(f) /\ asmFifo'[Len(asmFifo')].id = asmPartial[f.ch].id
           ELSE EmitsNothing /\ asmExpected'[f.ch] = "BODY"
    /\ (f.ty = "BODY" /\ e = "BODY") =>
           LET body == asmPartial[f.ch].body \o f.payload IN
           IF Len(body) = asmPartial[f.ch].body_size
           THEN Emits(f) /\ asmFifo'[Len(asmFifo')].body = body
           ELSE /\ EmitsNothing /\ asmExpected'[f.ch] = "BODY"
                /\ asmPartial'[f.ch].body = body
    /\ asmExpected'[f.ch] # e => f.ty = e
C35_ExpectedTypeTable ==
    /\ \A c \in AsmChans : asmExpected[c] = "METHOD"
    /\ [][FrameStep => TableRow(LastFrame)]_vars

\* a heartbeat arrived between the HEADER frame and the last BODY frame of a
\* method that was then returned with both payloads
C35_Witness ==
    /\ \E i \in 1..Len(asmReturned) :
          /\ ~IsError(asmReturned[i]) /\ asmReturned[i].body = <<1, 2, 3>>
          /\ \E j \in 1..Len(asmSeen) :
                /\ asmSeen[j].ty = "HEARTBEAT"
                /\ asmReturned[i].hdr < j /\ j < asmReturned[i].last

\* ---------------------------------------------------------------------
\* C36: with the frames of several channels interleaved, the body of each
\* emitted content method on a channel is the concatenation, in arrival
\* order, of exactly the BODY payloads received on that channel since its
\* HEADER frame, and the methods of one channel are emitted in the order in
\* which their last frames arrived.
RECURSIVE BodySince(_, _, _)
BodySince(c, from, to) ==
    IF from > to THEN <<>>
    ELSE (IF asmSeen[from].ty = "BODY" /\ asmSeen[from].ch = c
          THEN asmSeen[from].payload ELSE <<>>) \o BodySince(c, from + 1, to)
AsmEmitted == asmReturned \o asmFifo
C36_BodiesPerChannel ==
    /\ \A i \in 1..Len(AsmEmitted) :
          LET m == AsmEmitted[i] IN
          (~IsError(m) /\ m.content) =>
              /\ asmSeen[m.id] = [ty |-> "METHOD", ch |-> m.ch, content |-> TRUE]
              /\ asmSeen[m.hdr] = [ty |-> "HEADER", ch |-> m.ch, body_size |-> m.body_size]
              /\ m.id < m.hdr /\ m.hdr <= m.last /\ asmSeen[m.last].ch = m.ch
              /\ m.body = BodySince(m.ch, m.hdr + 1, m.last)
    /\ \A i, j \in 1..Len(AsmEmitted) :
          (i < j /\ ~IsError(AsmEmitted[i]) /\ ~IsError(AsmEmitted[j])
                 /\ AsmEmitted[i].ch = AsmEmitted[j].ch) =>
              AsmEmitted[i].last < AsmEmitted[j].last

\* a method of channel 2 was completed between the two BODY frames of a
\* method of channel 1, and both were returned
C36_Witness ==
    \E i, j \in 1..Len(asmReturned) :
        /\ ~IsError(asmReturned[i]) /\ ~IsError(asmReturned[j])
        /\ asmReturned[i].ch = 2 /\ asmReturned[j].ch = 1
        /\ asmReturned[j].body = <<1, 2, 3>>
        /\ asmReturned[j].hdr + 1 < asmReturned[i].last
        /\ asmReturned[i].last < asmReturned[j].last

\* ---------------------------------------------------------------------
\* C37: a frame whose type is neither the one expected on its channel nor
\* HEARTBEAT produces no method: an UnexpectedFrame error for its channel is
\* put on the method queue in its place, the assembly of every channel is
\* left as it was, and read_method hands out the queue from its head, so the
\* error is raised after everything queued before it.
PopStep == Len(asmReturned') = Len(asmReturned) + 1
C37_UnexpectedFrameQueued ==
    /\ [][(FrameStep /\ UnexpectedType(LastFrame)) =>
              /\ asmFifo' = Append(asmFifo, UnexpectedFrame(LastFrame, Len(asmSeen')))
              /\ asmExpected' = asmExpected /\ asmPartial' = asmPartial]_vars
    /\ [][PopStep =>
              /\ asmFifo # <<>> /\ asmFifo' = Tail(asmFifo)
              /\ asmReturned' = Append(asmReturned, Head(asmFifo))]_vars
    /\ [](\A i, j \in 1..Len(AsmEmitted) :
              i < j => AsmEmitted[i].last < AsmEmitted[j].last)

\* read_method returned a method, then raised the UnexpectedFrame of a BODY
\* frame that arrived while a HEADER was expected, then returned the method
\* whose assembly that frame interrupted
C37_Witness ==
    /\ Len(asmReturned) = 3
    /\ ~IsError(asmReturned[1])
    /\ IsError(asmReturned[2]) /\ asmSeen[asmReturned[2].last].ty = "BODY"
    /\ ~IsError(asmReturned[3]) /\ asmReturned[3].ch = asmReturned[2].ch
    /\ asmReturned[3].id < asmReturned[2].last

\* ---------------------------------------------------------------------
\* C38: while an operation waits on channel c for a reply in its allowed set
\* A, every method it reads for another channel, or for c but outside A, that
\* is not an immediate method is appended to the method_queue of the channel
\* it is addressed to and is not dispatched; no method read is lost, every
\* method_queue keeps arrival order, and the wait returns the first method
\* on c whose type is in A or is channel.close.
WaitReads == Len(rcvd') = Len(rcvd) + 1
WaitRow(t) ==
    LET m == Head(fromPeer)
        c == caller[t].ch
        A == {"channel.close"} \cup OpAllowed(caller[t].op)
    IN
    /\ caller[t].pc = "read"
    /\ IF m.ch = c /\ m.ty \in A
       THEN /\ caller'[t].pc = "idle" /\ m.n \in taken'
            /\ method_queue' = method_queue
       ELSE IF m.ch # 0 /\ m.ty \in IMMEDIATE_METHODS
       THEN /\ caller' = caller /\ method_queue' = method_queue
       ELSE /\ caller' = caller
            /\ method_queue' = [method_queue EXCEPT ![m.ch] = Append(@, m)]
            /\ calls' = calls /\ callbacks' = callbacks
            /\ returned_messages' = returned_messages
WaitReturns(t) == caller[t].pc \in {"scan", "read"} /\ caller'[t].pc = "idle"
InOrder(q) == \A i, j \in 1..Len(q) : i < j => q[i].n < q[j].n
C38_OthersAreQueued ==
    /\ [][WaitReads => \E t \in Threads : WaitRow(t)]_vars
    /\ [][\A t \in Threads : WaitReturns(t) =>
             \E n \in taken' \ taken :
                \A i \in 1..Len(method_queue[caller[t].ch]) :
                   LET q == method_queue[caller[t].ch][i] IN
                   q.ty \in {"channel.close"} \cup OpAllowed(caller[t].op) => n <= q.n]_vars
    /\ [](/\ \A c \in EvChans : InOrder(method_queue[c])
          /\ \A i \in 1..Len(rcvd) :
                \/ rcvd[i].n \in taken
                \/ \E j \in 1..Len(method_queue[rcvd[i].ch]) :
                      method_queue[rcvd[i].ch][j] = rcvd[i])

\* queue_declare on channel 1 has returned after its wait queued a delivery
\* and a cancel for channel 2, in that order
C38_Witness ==
    \E t \in Threads :
        /\ caller[t].pc = "idle" /\ caller[t].op = "queue_declare"
        /\ caller[t].ch = 1 /\ caller[t].result = "ok"
        /\ Len(method_queue[2]) = 2
        /\ method_queue[2][1].ty = "basic.deliver" /\ method_queue[2][2].ty = "basic.cancel"

\* ---------------------------------------------------------------------
\* C39: every channel operation that takes the lock releases it on every
\* way out: once the operation has returned, or raised a channel error, a
\* connection error, a codec error or a timeout, the lock is free and
\* another thread can acquire it.  The lock is held only by a thread inside
\* its operation.
LkInside(t) == lkThr[t].pc \in {"body", "wait"}
InMap(id) == conn.channels[id] # Nil
C40_IdInPoolOrMap ==
    \A id \in Ids :
        /\ Count(conn.avail, id) <= 1
        /\ InMap(id) <=> Count(conn.avail, id) = 0
====
